---- MODULE Spec2Model ----
(***************************************************************************)
(* Citation-to-reference matching of TaShan-PaperChecker:                   *)
(*   core/checker/citation_checking/reference_mapper.py                     *)
(*   core/checker/citation_checker.py                                       *)
(*                                                                          *)
(* A Python str is a sequence of characters; a character is a one-element   *)
(* token.  ASCII characters are themselves; the non-ASCII characters the    *)
(* code names are written                                                   *)
(*     "FWL" = U+FF08 fullwidth left parenthesis                            *)
(*     "FWR" = U+FF09 fullwidth right parenthesis                           *)
(*     "FWC" = U+FF0C fullwidth comma                                       *)
(*     "DENG" = U+7B49 (the CJK word for "et al.")                          *)
(* Python None is the one-token sequence None below, which is no str.       *)
(***************************************************************************)
EXTENDS Integers, Sequences, FiniteSets, TLC

None == <<"<None>">>

\* `not s` for an Optional[str]
Falsy(s) == s = None \/ s = <<>>

(***************************************************************************)
(* Character classes and str methods                                        *)
(***************************************************************************)
Digits == {"0", "1", "2", "3", "4", "5", "6", "7", "8", "9"}

\* the year alphabet of the citation patterns: [0-9OoIiZzSsGgBbDd]
OcrYearChars ==
    Digits \cup {"O", "o", "I", "i", "Z", "z", "S", "s", "G", "g", "B", "b", "D", "d"}

\* characters for which str.isspace() holds; these are also the regex \s
Whitespace == {" ", "\t", "\n", "\r"}

UpperToLower ==
    [c \in {"A", "B", "C", "D", "E", "F", "G", "H", "I", "J", "K", "L", "M",
            "N", "O", "P", "Q", "R", "S", "T", "U", "V", "W", "X", "Y", "Z"} |->
        CASE c = "A" -> "a" [] c = "B" -> "b" [] c = "C" -> "c" [] c = "D" -> "d"
          [] c = "E" -> "e" [] c = "F" -> "f" [] c = "G" -> "g" [] c = "H" -> "h"
          [] c = "I" -> "i" [] c = "J" -> "j" [] c = "K" -> "k" [] c = "L" -> "l"
          [] c = "M" -> "m" [] c = "N" -> "n" [] c = "O" -> "o" [] c = "P" -> "p"
          [] c = "Q" -> "q" [] c = "R" -> "r" [] c = "S" -> "s" [] c = "T" -> "t"
          [] c = "U" -> "u" [] c = "V" -> "v" [] c = "W" -> "w" [] c = "X" -> "x"
          [] c = "Y" -> "y" [] c = "Z" -> "z"]

\* str.lower()
lower(s) ==
    [i \in 1..Len(s) |-> IF s[i] \in DOMAIN UpperToLower THEN UpperToLower[s[i]] ELSE s[i]]

\* str.strip()
strip(s) ==
    LET keep == {i \in 1..Len(s) : s[i] \notin Whitespace}
    IN  IF keep = {} THEN <<>>
        ELSE LET lo == CHOOSE i \in keep : \A j \in keep : i <= j
                 hi == CHOOSE i \in keep : \A j \in keep : j <= i
             IN  SubSeq(s, lo, hi)

\* s[i:i+len(p)] == p
OccursAt(p, s, i) ==
    /\ i >= 1
    /\ i + Len(p) - 1 <= Len(s)
    /\ \A k \in 1..Len(p) : s[i + k - 1] = p[k]

\* p in s
Contains(s, p) == \E i \in 1..(Len(s) + 1) : OccursAt(p, s, i)

\* s.find(p), as a 0-based offset; -1 when p does not occur
find(s, p) ==
    IF Contains(s, p)
    THEN (CHOOSE i \in 1..(Len(s) + 1) :
             OccursAt(p, s, i) /\ \A j \in 1..(i - 1) : ~OccursAt(p, s, j)) - 1
    ELSE -1

\* s[lo..hi] consists of characters of class cls (true of the empty slice)
AllIn(s, lo, hi, cls) == \A k \in lo..hi : s[k] \in cls

\* four characters of class cls at s[i..i+3]
FourAt(s, i, cls) == i >= 1 /\ i + 3 <= Len(s) /\ AllIn(s, i, i + 3, cls)

\* the least element of a non-empty set of integers
Least(S) == CHOOSE i \in S : \A j \in S : i <= j

(***************************************************************************)
(* extract_author_year_from_citation                                        *)
(***************************************************************************)
\* the regex `.`: any character but a newline
NotNewline(s, lo, hi) == \A k \in lo..hi : s[k] # "\n"

\* lengths k of group 1 for which ^(.+?)FWL([0-9OoIiZzSsGgBbDd]{4})FWR matches t
FullWidthGroup1(t) ==
    {k \in 1..Len(t) :
        /\ NotNewline(t, 1, k)
        /\ k + 6 <= Len(t)
        /\ t[k + 1] = "FWL"
        /\ FourAt(t, k + 2, OcrYearChars)
        /\ t[k + 6] = "FWR"}

\* the regex \s*\(([0-9OoIiZzSsGgBbDd]{4})\) matches t right after position k
\* with m whitespace characters
LatinTailAt(t, k, m) ==
    /\ k + m + 6 <= Len(t)
    /\ AllIn(t, k + 1, k + m, Whitespace)
    /\ t[k + m + 1] = "("
    /\ FourAt(t, k + m + 2, OcrYearChars)
    /\ t[k + m + 6] = ")"

\* lengths k of group 1 for which ^(.+?)\s*\(([0-9OoIiZzSsGgBbDd]{4})\) matches t
LatinGroup1(t) ==
    {k \in 1..Len(t) :
        /\ NotNewline(t, 1, k)
        /\ \E m \in 0..Len(t) : LatinTailAt(t, k, m)}

extract_author_year_from_citation(citation) ==
    LET t == strip(citation)
    IN  IF FullWidthGroup1(t) # {}
        THEN LET k == Least(FullWidthGroup1(t))    \* .+? is lazy
             IN  [author |-> strip(SubSeq(t, 1, k)), year |-> SubSeq(t, k + 2, k + 5)]
        ELSE IF LatinGroup1(t) # {}
        THEN LET k == Least(LatinGroup1(t))
                 m == CHOOSE m \in 0..Len(t) : LatinTailAt(t, k, m)
             IN  [author |-> strip(SubSeq(t, 1, k)),
                  year |-> SubSeq(t, k + m + 2, k + m + 5)]
        ELSE [author |-> None, year |-> None]

(***************************************************************************)
(* extract_author_year_from_reference                                       *)
(***************************************************************************)
\* the end of the run of characters of class cls that starts at t[from]
\* (from - 1 when t[from] is not of the class)
RunEnd(t, from, cls) ==
    Least({k \in (from - 1)..Len(t) : k = Len(t) \/ t[k + 1] \notin cls})

\* re.sub(r'^\s*\[\d+\]\s*', '', reference_text); every quantifier is greedy
\* and no two adjacent classes overlap, so the match is unique
clean_reference_text(t) ==
    LET a == RunEnd(t, 1, Whitespace)       \* ^\s*
        b == RunEnd(t, a + 2, Digits)       \* \d+ after the "["
    IN  IF /\ a + 1 <= Len(t) /\ t[a + 1] = "["
           /\ b >= a + 2
           /\ b + 1 <= Len(t) /\ t[b + 1] = "]"
        THEN SubSeq(t, RunEnd(t, b + 2, Whitespace) + 1, Len(t))
        ELSE t

\* year_patterns, in the order of the list.  lead: the character the pattern
\* starts with (S stands for \s); gap: \s* between it and the year; trail: the
\* character classes that must follow the four digits
year_patterns ==
    << [lead |-> {"("},      gap |-> FALSE, trail |-> <<{")"}>>],
       [lead |-> {"("},      gap |-> FALSE, trail |-> <<{")"}, {"."}>>],
       [lead |-> {","},      gap |-> TRUE,  trail |-> <<{",", ")"}>>],
       [lead |-> {","},      gap |-> TRUE,  trail |-> <<{"."}>>],
       [lead |-> {","},      gap |-> TRUE,  trail |-> <<>>],
       [lead |-> {":"},      gap |-> TRUE,  trail |-> <<{"."}>>],
       [lead |-> {":"},      gap |-> TRUE,  trail |-> <<>>],
       [lead |-> Whitespace, gap |-> FALSE, trail |-> <<{"."}>>],
       [lead |-> Whitespace, gap |-> FALSE, trail |-> <<>>] >>

\* pattern pat matches t from position i on, its group (\d{4}) at j..j+3
YearPatternAt(pat, t, i, j) ==
    /\ j + 3 + Len(pat.trail) <= Len(t)
    /\ (pat.gap \/ j = i + 1)
    /\ AllIn(t, i + 1, j - 1, Whitespace)
    /\ FourAt(t, j, Digits)
    /\ \A k \in 1..Len(pat.trail) : t[j + 3 + k] \in pat.trail[k]

\* start positions of the matches of pat in t
YearMatches(pat, t) ==
    {i \in 1..Len(t) :
        t[i] \in pat.lead /\ \E j \in (i + 1)..Len(t) : YearPatternAt(pat, t, i, j)}

\* re.search(pattern, t).group(1): the group of the leftmost match
YearGroup(pat, t) ==
    LET i == Least(YearMatches(pat, t))
        j == CHOOSE j \in (i + 1)..Len(t) : YearPatternAt(pat, t, i, j)
    IN  SubSeq(t, j, j + 3)

\* the loop over year_patterns from pattern p on: the first that matches wins
RECURSIVE extract_year_from(_, _)
extract_year_from(t, p) ==
    IF p > Len(year_patterns) THEN None
    ELSE IF YearMatches(year_patterns[p], t) # {} THEN YearGroup(year_patterns[p], t)
    ELSE extract_year_from(t, p + 1)

\* one search for the leftmost year, whichever of the patterns it matches
extract_year_leftmost(t) ==
    LET P == {p \in 1..Len(year_patterns) : YearMatches(year_patterns[p], t) # {}}
    IN  IF P = {} THEN None
        ELSE LET first == Least(UNION {YearMatches(year_patterns[p], t) : p \in P})
                 p == Least({q \in P : first \in YearMatches(year_patterns[q], t)})
                 j == CHOOSE j \in (first + 1)..Len(t) :
                          YearPatternAt(year_patterns[p], t, first, j)
             IN  SubSeq(t, j, j + 3)

extract_year(t) == extract_year_from(t, 1)

\* s.split(sep)[0]
BeforeFirst(s, sep) ==
    IF \E i \in 1..Len(s) : s[i] = sep
    THEN SubSeq(s, 1, Least({i \in 1..Len(s) : s[i] = sep}) - 1)
    ELSE s

EndsWith(s, p) == Len(p) <= Len(s) /\ OccursAt(p, s, Len(s) - Len(p) + 1)

\* s is stripped here, so $ is the end of s
DropSuffix(s, p) == IF EndsWith(s, p) THEN SubSeq(s, 1, Len(s) - Len(p)) ELSE s

ET_AL == <<"e", "t", " ", "a", "l">>

\* re.sub(r'et al\.?$', '', s)
DropEtAl(s) ==
    IF EndsWith(s, ET_AL \o <<".">>) THEN DropSuffix(s, ET_AL \o <<".">>)
    ELSE DropSuffix(s, ET_AL)

extract_primary_author(t) ==
    LET \* ^([^.,]+)
        n == Least({k \in 0..Len(t) : k = Len(t) \/ t[k + 1] \in {".", ","}})
        a0 == IF n = 0 THEN None ELSE strip(SubSeq(t, 1, n))
        \* several authors: keep the first ("," cannot occur in a0)
        a1 == IF ~Falsy(a0) /\ Contains(a0, <<"FWC">>)
              THEN strip(BeforeFirst(a0, "FWC")) ELSE a0
        a2 == IF ~Falsy(a1) THEN strip(DropSuffix(a1, <<"DENG">>)) ELSE a1
    IN  IF ~Falsy(a1) THEN strip(DropEtAl(a2)) ELSE a1

extract_author_year_from_reference(reference_text) ==
    LET t == clean_reference_text(reference_text)
    IN  [author |-> extract_primary_author(t), year |-> extract_year(t)]

(***************************************************************************)
(* is_ocr_error                                                             *)
(***************************************************************************)
ocr_to_digit ==
    [c \in {"O", "o", "I", "i", "l", "Z", "z", "S", "s", "G", "g", "B", "b", "D", "d"} |->
        CASE c \in {"O", "o", "D", "d"} -> "0"
          [] c \in {"I", "i", "l"} -> "1"
          [] c \in {"Z", "z"} -> "2"
          [] c \in {"S", "s"} -> "5"
          [] c \in {"G", "g"} -> "6"
          [] c \in {"B", "b"} -> "8"]

\* no normalization at all
normalized_year_raw(year) == year

\* normalized_year1 / normalized_year2
normalized_year(year) ==
    [i \in 1..Len(year) |->
        IF year[i] \in DOMAIN ocr_to_digit THEN ocr_to_digit[year[i]] ELSE year[i]]

\* the positions at which two strings of equal length differ
diff_positions(a, b) == {i \in 1..Len(a) : a[i] # b[i]}

ocr_errors ==
    << <<"0", "O">>, <<"1", "I">>, <<"1", "l">>, <<"2", "Z">>,
       <<"5", "S">>, <<"6", "G">>, <<"8", "B">>, <<"0", "D">>,
       <<"1", "7">>, <<"2", "7">>, <<"2", "1">>, <<"0", "8">> >>

\* the test of the loop over ocr_errors without its second alternative
IsOcrErrorPair_first_alternative(char1_1, char1_2, char2_1, char2_2) ==
    \E k \in 1..Len(ocr_errors) :
        LET error1 == ocr_errors[k][1]
            error2 == ocr_errors[k][2]
        IN  (char1_1 = error1 /\ char2_1 = error2 /\ char1_2 = error2 /\ char2_2 = error1)

\* the test of the loop over ocr_errors
IsOcrErrorPair(char1_1, char1_2, char2_1, char2_2) ==
    \E k \in 1..Len(ocr_errors) :
        LET error1 == ocr_errors[k][1]
            error2 == ocr_errors[k][2]
        IN  \/ (char1_1 = error1 /\ char2_1 = error2 /\ char1_2 = error2 /\ char2_2 = error1)
            \/ (char1_1 = error2 /\ char2_1 = error1 /\ char1_2 = error1 /\ char2_2 = error2)

\* `if diff_count >= 1` in place of `if diff_count == 1`
is_ocr_error_any_diff(y1, y2) ==
    IF Len(y1) # 4 \/ Len(y2) # 4 THEN FALSE
    ELSE TRUE

is_ocr_error(y1, y2) ==
    IF Len(y1) # 4 \/ Len(y2) # 4 THEN FALSE
    ELSE LET n1 == normalized_year(y1)
             n2 == normalized_year(y2)
             d  == diff_positions(n1, n2)
         IN  IF n1 = n2 THEN TRUE
             ELSE IF Cardinality(d) = 1 THEN TRUE
             ELSE IF Cardinality(d) = 2
             THEN LET pos1 == Least(d)
                      pos2 == Least(d \ {pos1})
                  IN  IsOcrErrorPair(n1[pos1], n1[pos2], n2[pos1], n2[pos2])
             ELSE FALSE

(***************************************************************************)
(* Python float: IEEE-754 binary64, round to nearest, ties to even.         *)
(* The scores are non-negative and far from overflow and underflow, so a    *)
(* float is zero or m * 2^e with 2^52 <= m < 2^53.  TLC evaluates integers  *)
(* in 32 bits, so m is kept as a little-endian sequence of limbs in base    *)
(* 2^15 without leading zero limbs.                                         *)
(***************************************************************************)
LimbBits == 15
LimbBase == 2 ^ LimbBits
MantissaBits == 53

RECURSIVE BNorm(_)
BNorm(x) == IF x # <<>> /\ x[Len(x)] = 0 THEN BNorm(SubSeq(x, 1, Len(x) - 1)) ELSE x

BLimb(x, i) == IF i <= Len(x) THEN x[i] ELSE 0

RECURSIVE BAddFrom(_, _, _, _)
BAddFrom(x, y, i, carry) ==
    IF i > Len(x) /\ i > Len(y)
    THEN IF carry = 0 THEN <<>> ELSE <<carry>>
    ELSE LET t == BLimb(x, i) + BLimb(y, i) + carry
         IN  <<t % LimbBase>> \o BAddFrom(x, y, i + 1, t \div LimbBase)

BAdd(x, y) == BAddFrom(x, y, 1, 0)

RECURSIVE BMulSmallFrom(_, _, _, _)
BMulSmallFrom(x, c, i, carry) ==
    IF i > Len(x)
    THEN IF carry = 0 THEN <<>> ELSE <<carry>>
    ELSE LET t == x[i] * c + carry
         IN  <<t % LimbBase>> \o BMulSmallFrom(x, c, i + 1, t \div LimbBase)

\* x * c for 0 <= c < LimbBase
BMulSmall(x, c) == BNorm(BMulSmallFrom(x, c, 1, 0))

Zeros(n) == [i \in 1..n |-> 0]

RECURSIVE BMulFrom(_, _, _)
BMulFrom(x, y, i) ==
    IF i > Len(y) THEN <<>>
    ELSE BAdd(IF y[i] = 0 THEN <<>> ELSE Zeros(i - 1) \o BMulSmall(x, y[i]),
              BMulFrom(x, y, i + 1))

BMul(x, y) == BNorm(BMulFrom(x, y, 1))

\* quotient and remainder of x by c, 0 < c <= LimbBase
RECURSIVE BDivSmallFrom(_, _, _, _)
BDivSmallFrom(x, c, i, rem) ==
    IF i = 0 THEN [q |-> <<>>, r |-> rem]
    ELSE LET t == rem * LimbBase + x[i]
             rest == BDivSmallFrom(x, c, i - 1, t % c)
         IN  [q |-> rest.q \o <<t \div c>>, r |-> rest.r]

BDivSmall(x, c) ==
    LET d == BDivSmallFrom(x, c, Len(x), 0) IN [q |-> BNorm(d.q), r |-> d.r]

RECURSIVE BitLenSmall(_)
BitLenSmall(n) == IF n = 0 THEN 0 ELSE 1 + BitLenSmall(n \div 2)

BitLen(x) == IF x = <<>> THEN 0 ELSE LimbBits * (Len(x) - 1) + BitLenSmall(x[Len(x)])

BOdd(x) == x # <<>> /\ x[1] % 2 = 1

\* x * 2^s
ShiftLeft(x, s) ==
    IF x = <<>> THEN <<>>
    ELSE Zeros(s \div LimbBits) \o BMulSmall(x, 2 ^ (s % LimbBits))

\* floor(x / 2^s), and whether a non-zero bit was shifted out
ShiftRight(x, s) ==
    LET n == s \div LimbBits
        dropped == SubSeq(x, 1, IF n <= Len(x) THEN n ELSE Len(x))
        d == BDivSmall(SubSeq(x, n + 1, Len(x)), 2 ^ (s % LimbBits))
    IN  [q |-> d.q, lost |-> d.r # 0 \/ \E i \in 1..Len(dropped) : dropped[i] # 0]

\* x > y
RECURSIVE BGtFrom(_, _, _)
BGtFrom(x, y, i) ==
    IF i = 0 THEN FALSE
    ELSE IF x[i] # y[i] THEN x[i] > y[i]
    ELSE BGtFrom(x, y, i - 1)

BGt(x, y) ==
    IF Len(x) # Len(y) THEN Len(x) > Len(y) ELSE BGtFrom(x, y, Len(x))

FZero == [m |-> <<>>, e |-> 0]

\* the float nearest to n * 2^e (to its successor bit pattern when sticky says
\* that a non-zero tail below n was already dropped), n > 0
FRound(n, e, sticky) ==
    LET len == BitLen(n)
    IN  IF len <= MantissaBits
        THEN [m |-> ShiftLeft(n, MantissaBits - len), e |-> e - (MantissaBits - len)]
        ELSE LET s == len - MantissaBits
                 withGuard == ShiftRight(n, s - 1)
                 q == ShiftRight(withGuard.q, 1).q
                 up == BOdd(withGuard.q) /\ (withGuard.lost \/ sticky \/ BOdd(q))
                 q1 == IF up THEN BAdd(q, <<1>>) ELSE q
             IN  IF BitLen(q1) > MantissaBits
                 THEN [m |-> ShiftRight(q1, 1).q, e |-> e + s + 1]
                 ELSE [m |-> q1, e |-> e + s]

FMul(x, y) ==
    IF x = FZero \/ y = FZero THEN FZero
    ELSE FRound(BMul(x.m, y.m), x.e + y.e, FALSE)

FAdd(x, y) ==
    IF x = FZero THEN y
    ELSE IF y = FZero THEN x
    ELSE LET e == IF x.e < y.e THEN x.e ELSE y.e
         IN  FRound(BAdd(ShiftLeft(x.m, x.e - e), ShiftLeft(y.m, y.e - e)), e, FALSE)

DivScale == 75

\* float(p) / float(q) for integers 0 <= p, 0 < q < LimbBase; also the value
\* of a decimal literal p/q, which Python rounds correctly
FDiv(p, q) ==
    IF p = 0 THEN FZero
    ELSE LET d == BDivSmall(ShiftLeft(<<p>>, DivScale), q)
         IN  FRound(d.q, 0 - DivScale, d.r # 0)

\* x > y
FGt(x, y) ==
    IF x = FZero THEN FALSE
    ELSE IF y = FZero THEN TRUE
    ELSE IF x.e # y.e THEN x.e > y.e
    ELSE BGt(x.m, y.m)

FGe(x, y) == x = y \/ FGt(x, y)

\* the float literals of the mapper
F_1_0 == FDiv(10, 10)
F_0_9 == FDiv(9, 10)
F_0_8 == FDiv(8, 10)
F_0_6 == FDiv(6, 10)
F_0_5 == FDiv(5, 10)
F_0_4 == FDiv(4, 10)
F_0_3 == FDiv(3, 10)

(***************************************************************************)
(* difflib.SequenceMatcher(None, a, b).ratio()                              *)
(* (no junk; the autojunk heuristic needs len(b) >= 200)                    *)
(***************************************************************************)
\* a[i..i+k-1] = b[j..j+k-1] inside a[alo..ahi] and b[blo..bhi], k >= 1
IsBlock(a, b, ahi, bhi, i, j, k) ==
    /\ i + k - 1 <= ahi
    /\ j + k - 1 <= bhi
    /\ \A d \in 0..(k - 1) : a[i + d] = b[j + d]

\* the sizes of the matching blocks of a[alo..ahi] and b[blo..bhi]
BlockSizes(a, b, alo, ahi, blo, bhi) ==
    {k \in 1..(ahi - alo + 1) :
        \E i \in alo..ahi, j \in blo..bhi : IsBlock(a, b, ahi, bhi, i, j, k)}

\* find_longest_match: a longest block <<i, j, k>>, of those the one starting
\* earliest in a, of those the one starting earliest in b
find_longest_match(a, b, alo, ahi, blo, bhi) ==
    LET sizes == BlockSizes(a, b, alo, ahi, blo, bhi)
        k == CHOOSE n \in sizes : \A n2 \in sizes : n2 <= n
        i == Least({i1 \in alo..ahi : \E j1 \in blo..bhi : IsBlock(a, b, ahi, bhi, i1, j1, k)})
        j == Least({j1 \in blo..bhi : IsBlock(a, b, ahi, bhi, i, j1, k)})
    IN  <<i, j, k>>

\* the sum of the sizes of get_matching_blocks()
RECURSIVE matches(_, _, _, _, _, _)
matches(a, b, alo, ahi, blo, bhi) ==
    IF BlockSizes(a, b, alo, ahi, blo, bhi) = {} THEN 0
    ELSE LET x == find_longest_match(a, b, alo, ahi, blo, bhi)
         IN  x[3] + matches(a, b, alo, x[1] - 1, blo, x[2] - 1)
                  + matches(a, b, x[1] + x[3], ahi, x[2] + x[3], bhi)

\* 2.0 * matches / length, 1.0 for two empty strings
ratio(a, b) ==
    IF Len(a) + Len(b) = 0 THEN F_1_0
    ELSE FDiv(2 * matches(a, b, 1, Len(a), 1, Len(b)), Len(a) + Len(b))

(***************************************************************************)
(* calculate_author_match_score, calculate_year_match_score                 *)
(***************************************************************************)
\* the position tiers without `if citation_author in reference_text`
\* (find returns -1, which is below 100)
calculate_author_match_score_unguarded_find(c_author, reference_text, ref_author) ==
    LET ca == lower(strip(c_author))
        rt == lower(reference_text)
        ra == lower(strip(ref_author))
    IN  IF ca = ra THEN F_1_0
        ELSE IF Contains(ra, ca) \/ Contains(ca, ra) THEN F_0_9
        ELSE IF find(rt, ca) < 100 THEN F_0_8
        ELSE IF find(rt, ca) < 200 THEN F_0_6
        ELSE F_0_4

\* the exact tier missing: an equal author scores as a substring
calculate_author_match_score_no_exact(c_author, reference_text, ref_author) ==
    LET ca == lower(strip(c_author))
        rt == lower(reference_text)
        ra == lower(strip(ref_author))
    IN  IF Contains(ra, ca) \/ Contains(ca, ra) THEN F_0_9
        ELSE IF Contains(rt, ca) THEN F_0_8
        ELSE FMul(ratio(ca, ra), F_0_5)

\* the position tiers with `<=` for `<`
calculate_author_match_score_inclusive(c_author, reference_text, ref_author) ==
    LET ca == lower(strip(c_author))
        rt == lower(reference_text)
        ra == lower(strip(ref_author))
    IN  IF ca = ra THEN F_1_0
        ELSE IF Contains(ra, ca) \/ Contains(ca, ra) THEN F_0_9
        ELSE IF Contains(rt, ca)
        THEN IF find(rt, ca) <= 100 THEN F_0_8
             ELSE IF find(rt, ca) <= 200 THEN F_0_6
             ELSE F_0_4
        ELSE FMul(ratio(ca, ra), F_0_5)

\* the fallback without the factor 0.5
calculate_author_match_score_full_ratio(c_author, reference_text, ref_author) ==
    LET ca == lower(strip(c_author))
        rt == lower(reference_text)
        ra == lower(strip(ref_author))
    IN  IF ca = ra THEN F_1_0
        ELSE IF Contains(ra, ca) \/ Contains(ca, ra) THEN F_0_9
        ELSE IF Contains(rt, ca)
        THEN IF find(rt, ca) < 100 THEN F_0_8
             ELSE IF find(rt, ca) < 200 THEN F_0_6
             ELSE F_0_4
        ELSE ratio(ca, ra)

calculate_author_match_score(c_author, reference_text, ref_author) ==
    LET ca == lower(strip(c_author))
        rt == lower(reference_text)
        ra == lower(strip(ref_author))
    IN  IF ca = ra THEN F_1_0
        ELSE IF Contains(ra, ca) \/ Contains(ca, ra) THEN F_0_9
        ELSE IF Contains(rt, ca)
        THEN IF find(rt, ca) < 100 THEN F_0_8
             ELSE IF find(rt, ca) < 200 THEN F_0_6
             ELSE F_0_4
        ELSE FMul(ratio(ca, ra), F_0_5)

\* the occurrence in the text tried before the OCR test
calculate_year_match_score_text_first(c_year, reference_text, ref_year) ==
    IF ~Falsy(ref_year) /\ c_year = ref_year THEN F_1_0
    ELSE IF Contains(reference_text, c_year) THEN F_0_8
    ELSE IF ~Falsy(ref_year) /\ is_ocr_error(c_year, ref_year) THEN F_0_9
    ELSE FZero

calculate_year_match_score(c_year, reference_text, ref_year) ==
    IF ~Falsy(ref_year) /\ c_year = ref_year THEN F_1_0
    ELSE IF ~Falsy(ref_year) /\ is_ocr_error(c_year, ref_year) THEN F_0_9
    ELSE IF Contains(reference_text, c_year) THEN F_0_8
    ELSE FZero

\* author_score * 0.4 + year_score * 0.4
total_score_wrong_weight(author_score, year_score) ==
    FAdd(FMul(author_score, F_0_4), FMul(year_score, F_0_4))

\* total_score = author_score * 0.6 + year_score * 0.4
total_score(author_score, year_score) ==
    FAdd(FMul(author_score, F_0_6), FMul(year_score, F_0_4))

\* the acceptance threshold 0.3
Threshold == F_0_3

(***************************************************************************)
(* extract_authors_from_reference, format_citation_by_authors               *)
(*     "FWS" = U+3002 ideographic full stop                                 *)
(*     "ZHANG", "QI", "KAN", "ZA", "ZHI", like "DENG", are CJK ideographs   *)
(*     (U+5F20, and the characters of the two words for "journal")          *)
(***************************************************************************)
\* the characters of [\u4e00-\u9fff]
CJK == {"DENG", "ZHANG", "QI", "KAN", "ZA", "ZHI", "SAN", "LI3", "SI", "BIAO", "TI"}

contains_chinese(text) == \E i \in 1..Len(text) : text[i] \in CJK

\* s[:n]
Prefix(s, n) == SubSeq(s, 1, IF n < Len(s) THEN n ELSE Len(s))

\* s.split(sep) for a one-character sep
RECURSIVE SplitOn(_, _)
SplitOn(s, sep) ==
    IF \E i \in 1..Len(s) : s[i] = sep
    THEN LET i == Least({k \in 1..Len(s) : s[k] = sep})
         IN  <<SubSeq(s, 1, i - 1)>> \o SplitOn(SubSeq(s, i + 1, Len(s)), sep)
    ELSE <<s>>

\* s.split(): the maximal runs of non-whitespace characters
RECURSIVE split(_)
split(s) ==
    LET t == strip(s)
    IN  IF t = <<>> THEN <<>>
        ELSE LET n == Least({k \in 1..Len(t) : k = Len(t) \/ t[k + 1] \in Whitespace})
             IN  <<SubSeq(t, 1, n)>> \o split(SubSeq(t, n + 1, Len(t)))

\* [x.strip() for x in parts if x.strip()]
RECURSIVE StripNonEmpty(_)
StripNonEmpty(parts) ==
    IF parts = <<>> THEN <<>>
    ELSE (IF strip(Head(parts)) = <<>> THEN <<>> ELSE <<strip(Head(parts))>>)
             \o StripNonEmpty(Tail(parts))

\* [author for author in authors if author != DENG]
RECURSIVE WithoutDeng(_)
WithoutDeng(authors) ==
    IF authors = <<>> THEN <<>>
    ELSE (IF Head(authors) = <<"DENG">> THEN <<>> ELSE <<Head(authors)>>)
             \o WithoutDeng(Tail(authors))

\* the position of the first c in s, 0 when there is none
FirstIndex(s, c) ==
    IF \E i \in 1..Len(s) : s[i] = c THEN Least({i \in 1..Len(s) : s[i] = c}) ELSE 0

\* re.search(r'^([^\.]+?)\.', s) matches: the first "." is not the first character
HasLeadBeforePeriod(s) == FirstIndex(s, ".") >= 2

extract_chinese_authors(reference_text) ==
    IF HasLeadBeforePeriod(reference_text)
    THEN LET authors_str == SubSeq(reference_text, 1, FirstIndex(reference_text, ".") - 1)
         IN  WithoutDeng(
                 IF Contains(authors_str, <<"FWC">>)
                 THEN StripNonEmpty(SplitOn(authors_str, "FWC"))
                 ELSE IF Contains(authors_str, <<",">>)
                 THEN StripNonEmpty(SplitOn(authors_str, ","))
                 ELSE <<strip(authors_str)>>)
    ELSE <<>>

\* the one-character string at s[i], "" past the end
CharAt(s, i) == IF i >= 1 /\ i <= Len(s) THEN s[i] ELSE ""

\* (dddd) at s[i..i+5]
ParenYearAt(s, i) ==
    /\ i >= 1 /\ i + 5 <= Len(s)
    /\ s[i] = "(" /\ AllIn(s, i + 1, i + 4, Digits) /\ s[i + 5] = ")"

\* the end of the match of a pattern at s[i], 0 when it does not match there
\*   "and"      \s+and\s+
\*   "amp"      \s*&\s*
\*   "et_al"    ,?\s*et al\.?        (re.IGNORECASE)
\*   "ws_et_al" \s+et\s+al\.?        (re.IGNORECASE)
\*   "ws_deng"  \s+DENG
MatchEnd(pat, s, i) ==
    LET a == RunEnd(s, i, Whitespace)
    IN  CASE pat = "and" ->
                 IF a >= i /\ OccursAt(<<"a", "n", "d">>, s, a + 1)
                    /\ RunEnd(s, a + 4, Whitespace) >= a + 4
                 THEN RunEnd(s, a + 4, Whitespace) ELSE 0
          [] pat = "amp" ->
                 IF CharAt(s, a + 1) = "&" THEN RunEnd(s, a + 2, Whitespace) ELSE 0
          [] pat = "et_al" ->
                 LET k == IF s[i] = "," THEN i + 1 ELSE i
                     b == RunEnd(s, k, Whitespace)
                 IN  IF OccursAt(ET_AL, lower(s), b + 1)
                     THEN IF CharAt(s, b + 6) = "." THEN b + 6 ELSE b + 5
                     ELSE 0
          [] pat = "ws_et_al" ->
                 LET b == RunEnd(s, a + 3, Whitespace)
                 IN  IF a >= i /\ OccursAt(<<"e", "t">>, lower(s), a + 1)
                        /\ b >= a + 3 /\ OccursAt(<<"a", "l">>, lower(s), b + 1)
                     THEN IF CharAt(s, b + 3) = "." THEN b + 3 ELSE b + 2
                     ELSE 0
          [] pat = "ws_deng" ->
                 IF a >= i /\ CharAt(s, a + 1) = "DENG" THEN a + 1 ELSE 0

\* re.sub(pat, repl, s) from position i on: leftmost, non-overlapping
RECURSIVE re_sub_from(_, _, _, _)
re_sub_from(pat, repl, s, i) ==
    IF i > Len(s) THEN <<>>
    ELSE IF MatchEnd(pat, s, i) # 0
    THEN repl \o re_sub_from(pat, repl, s, MatchEnd(pat, s, i) + 1)
    ELSE <<s[i]>> \o re_sub_from(pat, repl, s, i + 1)

re_sub(pat, repl, s) == re_sub_from(pat, repl, s, 1)

\* the split of authors_str at the commas outside abbreviations, from
\* character i on; current_author and in_abbreviation are the loop's variables
RECURSIVE split_authors(_, _, _, _)
split_authors(s, i, current_author, in_abbreviation) ==
    IF i > Len(s)
    THEN IF strip(current_author) # <<>> THEN <<strip(current_author)>> ELSE <<>>
    ELSE IF s[i] = "," /\ ~in_abbreviation
    THEN (IF strip(current_author) # <<>> THEN <<strip(current_author)>> ELSE <<>>)
             \o split_authors(s, i + 1, <<>>, in_abbreviation)
    ELSE split_authors(s, i + 1, current_author \o <<s[i]>>,
             IF s[i] = "." THEN TRUE
             ELSE IF s[i] = " " /\ in_abbreviation THEN FALSE
             ELSE in_abbreviation)

UpperCase == DOMAIN UpperToLower

LowerCase == {UpperToLower[c] : c \in UpperCase}

\* re.match(r'^[A-Z]\.(?:\s*[A-Z]\.)?$', author), author stripped
IsAbbreviation(author) ==
    /\ Len(author) >= 2
    /\ author[1] \in UpperCase /\ author[2] = "."
    /\ \/ Len(author) = 2
       \/ /\ Len(author) >= 4
          /\ AllIn(author, 3, Len(author) - 2, Whitespace)
          /\ author[Len(author) - 1] \in UpperCase
          /\ author[Len(author)] = "."

\* the loop over author_list: an abbreviation joins the author before it
RECURSIVE merge_abbreviations(_, _)
merge_abbreviations(author_list, authors) ==
    IF author_list = <<>> THEN authors
    ELSE LET author == Head(author_list)
         IN  merge_abbreviations(Tail(author_list),
                 IF IsAbbreviation(author) /\ authors # <<>>
                 THEN [authors EXCEPT ![Len(authors)] = @ \o <<" ">> \o author]
                 ELSE Append(authors, author))

\* authors_str of extract_english_authors, None when the function returns
\* before it is set
english_authors_str(t) ==
    LET paren == FirstIndex(t, "(")
        period == FirstIndex(t, ".")
        comma == FirstIndex(t, ",")
    IN  IF paren >= 2 /\ ParenYearAt(t, paren)
        THEN SubSeq(t, 1, paren - 1)                  \* ^([^\(]+?)\(\d{4}\)
        ELSE IF period >= 2 /\ ParenYearAt(t, RunEnd(t, period + 1, Whitespace) + 1)
        THEN SubSeq(t, 1, period - 1)                 \* ^([^\.]+?)\.\s*\(\d{4}\)
        ELSE IF period >= 2
        THEN SubSeq(t, 1, period - 1)                 \* ^([^\.]+?)\.
        ELSE IF comma # 0 /\ (period = 0 \/ comma < period)
        THEN SubSeq(t, 1, comma - 1)
        ELSE IF period # 0
        THEN SubSeq(t, 1, period - 1)
        ELSE None

\* the pair (authors, has_et_al) as a record, from authors_str
english_authors(authors_str, has_et_al) ==
        IF authors_str = None THEN [authors |-> <<>>, has_et_al |-> has_et_al]
        ELSE [authors |->
                  merge_abbreviations(
                      split_authors(
                          re_sub("et_al", <<>>,
                              re_sub("amp", <<",", " ">>,
                                  re_sub("and", <<",", " ">>, authors_str))),
                          1, <<>>, FALSE),
                      <<>>),
              has_et_al |-> has_et_al]

extract_english_authors(reference_text) ==
    english_authors(english_authors_str(reference_text),
                    Contains(lower(reference_text), ET_AL))

extract_authors_from_reference(reference_text) ==
    IF \/ contains_chinese(Prefix(reference_text, 50))
       \/ Contains(reference_text, <<"FWC">>)
       \/ Contains(reference_text, <<"FWS">>)
       \/ Contains(reference_text, <<"QI", "KAN">>)
       \/ Contains(reference_text, <<"ZA", "ZHI">>)
    THEN [authors |-> extract_chinese_authors(reference_text), has_et_al |-> FALSE]
    ELSE extract_english_authors(reference_text)

dutch_prefixes ==
    { <<"v", "a", "n">>, <<"d", "e", "n">>, <<"d", "e">>, <<"d", "e", "r">>,
      <<"t", "e", "r">>, <<"t", "e", "n">>, <<"v", "a", "n", "d", "e", "n">>,
      <<"v", "a", "n", "d", "e", "r">> }

\* the surname among the parts of name
surname_of_parts(name, parts) ==
    LET k == Len(parts)
    IN  IF parts = <<>> THEN name
        ELSE IF k >= 2 /\ lower(parts[k - 1]) \in dutch_prefixes
        THEN parts[k - 1] \o <<" ">> \o parts[k]
        ELSE IF Len(parts[k]) = 1 \/ (Len(parts[k]) = 2 /\ parts[k][2] = ".")
        THEN IF k > 1 THEN parts[k - 1] ELSE parts[k]
        ELSE parts[k]

\* parts = name.split()
surname_of_name(name) == surname_of_parts(name, split(name))

extract_surname(name) ==
    surname_of_name(
        strip(re_sub("ws_deng", <<>>, strip(re_sub("ws_et_al", <<>>, name)))))

\* CitationFormatter._extract_surname(author): parts is author.split() of the
\* stripped author
CitationFormatter_surname_of_parts(author, parts) ==
    IF parts = <<>> THEN author ELSE parts[Len(parts)]

CitationFormatter_extract_surname(author) ==
    IF Contains(strip(author), <<",">>)
    THEN strip(BeforeFirst(strip(author), ","))
    ELSE CitationFormatter_surname_of_parts(strip(author), split(strip(author)))

\* extract_surname(author) of citation_extractor.py
citation_extractor_surname_of_parts(author, parts) ==
    IF parts = <<>> THEN author ELSE parts[1]

citation_extractor_extract_surname(author) ==
    IF Contains(strip(author), <<",">>)
    THEN strip(BeforeFirst(strip(author), ","))
    ELSE citation_extractor_surname_of_parts(strip(author), split(strip(author)))

\* str.isupper(): some cased character, and no lower-case one
isupper(s) ==
    /\ \E i \in 1..Len(s) : s[i] \in UpperCase
    /\ \A i \in 1..Len(s) : s[i] \notin LowerCase

\* [extract_surname(author) for author in authors]
surnames_of(authors) == [i \in 1..Len(authors) |-> extract_surname(authors[i])]

\* format_by_surnames with the test of has_et_al ahead of the test of a single
\* institutional surname
format_by_surnames_et_al_first(authors, surnames, tail, original_citation, has_et_al) ==
        IF authors = <<>> THEN original_citation
        ELSE IF contains_chinese(authors[1])
        THEN IF Len(authors) > 1 \/ has_et_al
             THEN authors[1] \o <<" ", "DENG">> \o tail
             ELSE authors[1] \o tail
        ELSE IF has_et_al \/ Len(surnames) > 2
        THEN surnames[1] \o <<" ", "e", "t", " ", "a", "l", ".">> \o tail
        ELSE IF Len(surnames) = 1 /\ (Len(split(surnames[1])) > 2 \/ isupper(surnames[1]))
        THEN surnames[1] \o tail
        ELSE IF Len(surnames) = 2
        THEN surnames[1] \o <<" ", "&", " ">> \o surnames[2] \o tail
        ELSE surnames[1] \o tail

\* format_by_surnames with a Chinese branch that looks at the number of
\* authors only
format_by_surnames_chinese_by_count(authors, surnames, tail, original_citation, has_et_al) ==
        IF authors = <<>> THEN original_citation
        ELSE IF contains_chinese(authors[1])
        THEN IF Len(authors) > 1
             THEN authors[1] \o <<" ", "DENG">> \o tail
             ELSE authors[1] \o tail
        ELSE IF Len(surnames) = 1 /\ (Len(split(surnames[1])) > 2 \/ isupper(surnames[1]))
        THEN surnames[1] \o tail
        ELSE IF has_et_al \/ Len(surnames) > 2
        THEN surnames[1] \o <<" ", "e", "t", " ", "a", "l", ".">> \o tail
        ELSE IF Len(surnames) = 2
        THEN surnames[1] \o <<" ", "&", " ">> \o surnames[2] \o tail
        ELSE surnames[1] \o tail

\* the citation of authors whose surnames are surnames; tail is the year in
\* full-width parentheses
format_by_surnames(authors, surnames, tail, original_citation, has_et_al) ==
        IF authors = <<>> THEN original_citation
        ELSE IF contains_chinese(authors[1])
        THEN IF Len(authors) > 1 \/ has_et_al
             THEN authors[1] \o <<" ", "DENG">> \o tail
             ELSE authors[1] \o tail
        ELSE IF Len(surnames) = 1 /\ (Len(split(surnames[1])) > 2 \/ isupper(surnames[1]))
        THEN surnames[1] \o tail
        ELSE IF has_et_al \/ Len(surnames) > 2
        THEN surnames[1] \o <<" ", "e", "t", " ", "a", "l", ".">> \o tail
        ELSE IF Len(surnames) = 2
        THEN surnames[1] \o <<" ", "&", " ">> \o surnames[2] \o tail
        ELSE surnames[1] \o tail

format_citation_by_authors(authors, year, original_citation, has_et_al) ==
    format_by_surnames(authors, surnames_of(authors), <<"FWL">> \o year \o <<"FWR">>,
                       original_citation, has_et_al)

(***************************************************************************)
(* State                                                                    *)
(***************************************************************************)
VARIABLES
    citations,          \* document.citations: records [text, format_type]
    references,         \* document.references / reference_dicts: records [text]
    pc,                 \* position in CitationChecker.check and in the mapper
    ci,                 \* index of the citation being processed (enumerate(..., 1))
    citation_author,    \* map_author_year_citation_to_reference: locals
    citation_year,
    ri,                 \* index of the next reference of `for ref in references`
    best_match,         \* index of the reference held by best_match, 0 for None
    best_score,
    best_ref_year,
    scores,             \* per scanned reference: its total_score, or None when skipped
    result,             \* what the mapper returned for the current citation
    results,            \* CitationChecker.check: report entries
    matched_count,
    unmatched_count,
    corrected_count,
    all_mapping_results,
    unused_references,  \* indexes of document.references reported unused
    year1,              \* arguments and results of a direct call of the year scorer
    year2,
    year_text,
    ocr_result,
    year_score,
    formatted_count,    \* CitationChecker.check: counters and lists of the report
    corrections_needed,
    formatting_needed,
    arg_citation_author,    \* arguments and results of direct calls of
    arg_reference_text,     \* calculate_author_match_score and
    arg_ref_author,         \* extract_author_year_from_reference
    author_score,
    parsed_author,
    parsed_year,
    file_paths,         \* BatchProcessor.process: the argument
    futures,            \* the state of the future of each submitted path
    work_queue,         \* the executor's queue of submitted, unstarted work items
    workers,            \* per worker thread: the work item it runs, 0 when idle
    collected,          \* the futures as_completed has yielded
    batch_results,      \* results
    failed_files,
    arg_authors,        \* arguments and results of direct calls of
    arg_year,           \* extract_authors_from_reference,
    arg_has_et_al,      \* format_citation_by_authors and the
    arg_name,           \* surname extraction routines
    arg_original_citation,
    ret_authors,
    ret_has_et_al,
    ret_formatted,
    ret_surname

vars ==
    << citations, references, pc, ci, citation_author, citation_year, ri,
       best_match, best_score, best_ref_year, scores, result, results,
       matched_count, unmatched_count, corrected_count, all_mapping_results,
       unused_references, year1, year2, year_text, ocr_result, year_score,
       formatted_count, corrections_needed, formatting_needed,
       arg_citation_author, arg_reference_text, arg_ref_author, author_score,
       parsed_author, parsed_year,
       file_paths, futures, work_queue, workers, collected, batch_results,
       failed_files,
       arg_authors, arg_year, arg_has_et_al, arg_name, arg_original_citation,
       ret_authors, ret_has_et_al, ret_formatted, ret_surname >>

mapperVars ==
    << citation_author, citation_year, ri, best_match, best_score, best_ref_year,
       scores, result >>

reportVars ==
    << results, matched_count, unmatched_count, corrected_count, all_mapping_results,
       formatted_count, corrections_needed, formatting_needed >>

yearVars == << year1, year2, year_text, ocr_result, year_score >>

formatVars ==
    << arg_authors, arg_year, arg_has_et_al, arg_name, arg_original_citation,
       ret_authors, ret_has_et_al, ret_formatted, ret_surname >>

directVars ==
    << arg_citation_author, arg_reference_text, arg_ref_author, author_score,
       parsed_author, parsed_year, formatVars >>

batchVars ==
    << file_paths, futures, work_queue, workers, collected, batch_results, failed_files >>

checkVars ==
    << citations, references, ci, mapperVars, reportVars, unused_references >>

(***************************************************************************)
(* Inputs                                                                   *)
(***************************************************************************)
MaxCitations == 1
MaxRefs == 2

Smith == <<"S", "m", "i", "t", "h">>
Li == <<"L", "i">>
Wu == <<"W", "u">>
Y2020 == <<"2", "0", "2", "0">>
Y2O2O == <<"2", "O", "2", "O">>
Y1999 == <<"1", "9", "9", "9">>
Y1987 == <<"1", "9", "8", "7">>

\* citation.text
CitationTexts ==
    { Smith \o <<"FWL">> \o Y2O2O \o <<"FWR">>,              \* Smith(2O2O), full-width
      Smith \o <<"FWL">> \o Y2020 \o <<"FWR">>,              \* Smith(2020), full-width
      Li \o <<" ", "(">> \o Y2020 \o <<")">>,                \* Li (2020)
      <<" ">> \o Li \o <<"FWL">> \o Y1999 \o <<"FWR", "x">>,  \* " Li(1999)x", full-width
      Wu \o <<"FWL">> \o Y1987 \o <<"FWR">>,                 \* Wu(1987), full-width
      Smith \o <<" ">> \o Y2020 }                            \* Smith 2020: no pattern

Citations ==
    [text : CitationTexts, format_type : {"author_year"}]
        \cup {[text |-> <<"[", "1", "]">>, format_type |-> "number"]}

\* ref.text
ReferenceTexts ==
    { Smith \o <<",", " ", "J", ".", " ", "(">> \o Y2020 \o <<")", ".">>,   \* Smith, J. (2020).
      <<"S", "m", "y", "t", "h", ",", " ", "K", ".", " ", "(">> \o Y1999 \o <<")", ".">>,
      <<"[", "1", "]", " ">> \o Li \o <<".", " ", "T", " ", "(">> \o Y1999
          \o <<")", ",", " ">> \o Y2020 \o <<".">>,                       \* [1] Li. T (1999), 2020.
      <<"L", "u", "i", "s", ",", " ", "K", ".", " ", "(">> \o Y2020 \o <<")", ".">>,
      <<".", " ">> \o Smith \o <<" ", "(">> \o Y2020 \o <<")">>,           \* . Smith (2020)
      <<"DENG", ",", " ">> \o Li \o <<",", " ">> \o Y2020,                   \* DENG, Li, 2020
      Smith \o <<".", " ", "T", ".">> }                                    \* Smith. T.

\* Reference(text, author, year) as the extractors build it: year is the year
\* extracted from text (the author field is not read by check)
Reference(text) ==
    [text |-> text, year |-> extract_author_year_from_reference(text).year]

References == {Reference(t) : t \in ReferenceTexts}

SeqsUpTo(S, n) == UNION {[1..k -> S] : k \in 0..n}

(***************************************************************************)
(* CitationChecker.check and map_author_year_citation_to_reference          *)
(***************************************************************************)
\* a citation or reference text that is no str: None, or an int
IntValue == <<"<int>">>
IsStr(x) == x \notin {None, IntValue}

\* the mapper returned None
NoResult == [reference |-> 0, corrected_citation |-> None, original_citation |-> None]

IdleYear ==
    /\ year1 = None /\ year2 = None /\ year_text = None
    /\ ocr_result = FALSE /\ year_score = FZero

\* no direct call of the author scorer or of the reference parser
IdleFormat ==
    /\ arg_authors = <<>> /\ arg_year = None /\ arg_has_et_al = FALSE
    /\ arg_name = None /\ arg_original_citation = None
    /\ ret_authors = <<>> /\ ret_has_et_al = FALSE
    /\ ret_formatted = None /\ ret_surname = None

IdleDirect ==
    /\ arg_citation_author = None /\ arg_reference_text = None
    /\ arg_ref_author = None
    /\ author_score = FZero
    /\ parsed_author = None /\ parsed_year = None
    /\ IdleFormat

\* no batch
IdleBatch ==
    /\ file_paths = <<>> /\ futures = <<>> /\ work_queue = <<>>
    /\ workers = <<>> /\ collected = {}
    /\ batch_results = <<>> /\ failed_files = <<>>

\* CitationChecker.check has not started
IdleCheck ==
    /\ citations = <<>> /\ references = <<>>
    /\ ci = 1
    /\ citation_author = None /\ citation_year = None
    /\ ri = 1
    /\ best_match = 0 /\ best_score = FZero /\ best_ref_year = None
    /\ scores = <<>>
    /\ result = NoResult
    /\ results = <<>>
    /\ matched_count = 0 /\ unmatched_count = 0 /\ corrected_count = 0
    /\ formatted_count = 0
    /\ corrections_needed = <<>> /\ formatting_needed = <<>>
    /\ all_mapping_results = <<>>
    /\ unused_references = {}

Init ==
    /\ citations \in SeqsUpTo(Citations, MaxCitations)
    /\ references \in SeqsUpTo(References, MaxRefs)
    /\ pc = "next"
    /\ ci = 1
    /\ citation_author = None /\ citation_year = None
    /\ ri = 1
    /\ best_match = 0 /\ best_score = FZero /\ best_ref_year = None
    /\ scores = <<>>
    /\ result = NoResult
    /\ results = <<>>
    /\ matched_count = 0 /\ unmatched_count = 0 /\ corrected_count = 0
    /\ formatted_count = 0
    /\ corrections_needed = <<>> /\ formatting_needed = <<>>
    /\ all_mapping_results = <<>>
    /\ unused_references = {}
    /\ IdleYear /\ IdleDirect /\ IdleBatch

\* report_entry of a citation without match
unmatched_entry(i, text) ==
    [citation_index |-> i, original_citation |-> text,
     matched |-> FALSE, needs_correction |-> FALSE, needs_formatting |-> FALSE,
     reference_text |-> None, corrected_citation |-> None,
     formatted_citation |-> None]

\* check: a citation whose format_type is not 'author_year' is only counted
RecordNumeric ==
    /\ pc = "next"
    /\ ci <= Len(citations)
    /\ citations[ci].format_type # "author_year"
    /\ unmatched_count' = unmatched_count + 1
    /\ results' = Append(results, unmatched_entry(ci, citations[ci].text))
    /\ ci' = ci + 1
    /\ UNCHANGED << citations, references, pc, mapperVars, matched_count,
                    corrected_count, all_mapping_results, formatted_count,
                    corrections_needed, formatting_needed, unused_references,
                    yearVars, directVars, batchVars >>

\* a best_score that outlives the call (a module-level accumulator)
initial_best_score_kept(previous) == previous

\* best_score = 0.0 at the start of every call, whatever the previous call
\* left in it
initial_best_score(previous) == FZero

\* mapper, up to the loop: parse the citation, return None when it does not parse
\* (pc = "raised": check has left with an exception)
ParseCitation ==
    /\ pc = "next"
    /\ ci <= Len(citations)
    /\ citations[ci].format_type = "author_year"
    /\ IF IsStr(citations[ci].text)
       THEN LET parsed == extract_author_year_from_citation(citations[ci].text)
            IN  /\ citation_author' = parsed.author
                /\ citation_year' = parsed.year
                /\ pc' = IF Falsy(parsed.author) \/ Falsy(parsed.year)
                         THEN "report" ELSE "scan"
       ELSE \* citation.strip() raises AttributeError, which check does not catch
            /\ citation_author' = None /\ citation_year' = None
            /\ pc' = "raised"
    /\ result' = NoResult
    /\ ri' = 1
    /\ best_match' = 0 /\ best_ref_year' = None
    /\ best_score' = initial_best_score(best_score)
    /\ scores' = <<>>
    /\ UNCHANGED << citations, references, ci, reportVars, unused_references, yearVars, directVars, batchVars >>

\* a loop body without `if not ref_author: continue`
score_reference_no_skip(author, year, ref_text) ==
    LET parsed == extract_author_year_from_reference(ref_text)
        ref_author == IF Falsy(parsed.author) THEN <<>> ELSE parsed.author
        a == calculate_author_match_score(author, ref_text, ref_author)
        y == calculate_year_match_score(year, ref_text, parsed.year)
    IN  [scored |-> TRUE, author_score |-> a, year_score |-> y,
         total_score |-> total_score(a, y), ref_year |-> parsed.year]

\* what the loop body computes for one reference
score_reference(author, year, ref_text) ==
    LET parsed == extract_author_year_from_reference(ref_text)
    IN  IF Falsy(parsed.author)
        THEN [scored |-> FALSE, author_score |-> FZero, year_score |-> FZero,
              total_score |-> FZero, ref_year |-> parsed.year]
        ELSE LET a == calculate_author_match_score(author, ref_text, parsed.author)
                 y == calculate_year_match_score(year, ref_text, parsed.year)
             IN  [scored |-> TRUE, author_score |-> a, year_score |-> y,
                  total_score |-> total_score(a, y), ref_year |-> parsed.year]

\* a scan that replaces the best candidate on an equal score as well
improves_or_ties(total, best) == FGe(total, best)

\* if total_score > best_score
improves(total, best) == FGt(total, best)

\* an update that takes best_ref_year from every scored reference, not only
\* from the one that becomes best_match
update_best_year_of_last(best, idx, sc) ==
    IF sc.scored /\ improves(sc.total_score, best.score)
    THEN [match |-> idx, score |-> sc.total_score, ref_year |-> sc.ref_year]
    ELSE IF sc.scored THEN [best EXCEPT !.ref_year = sc.ref_year]
    ELSE best

\* the update of best_match, best_score and best_ref_year by reference idx,
\* whose loop body computed sc; best is the three as a record
update_best(best, idx, sc) ==
    IF sc.scored /\ improves(sc.total_score, best.score)
    THEN [match |-> idx, score |-> sc.total_score, ref_year |-> sc.ref_year]
    ELSE best

\* mapper: one iteration of `for ref in references`
ScoreReference ==
    /\ pc = "scan"
    /\ ri <= Len(references)
    /\ IF IsStr(references[ri].text)
       THEN /\ scores' = Append(scores,
                   score_reference(citation_author, citation_year, references[ri].text))
            /\ LET best == update_best([match |-> best_match, score |-> best_score,
                                        ref_year |-> best_ref_year], ri, scores'[ri])
               IN  /\ best_match' = best.match
                   /\ best_score' = best.score
                   /\ best_ref_year' = best.ref_year
            /\ ri' = ri + 1
            /\ pc' = pc
       ELSE \* re.sub raises TypeError, which neither the mapper nor check catches
            /\ pc' = "raised"
            /\ UNCHANGED << scores, best_match, best_score, best_ref_year, ri >>
    /\ UNCHANGED << citations, references, ci, citation_author, citation_year,
                    result, reportVars, unused_references, yearVars, directVars,
                    batchVars >>

\* an acceptance test without the threshold
accepted_any_score(match, score) == match # 0

\* an acceptance test with a threshold of 0.5
accepted_above_half(match, score) == match # 0 /\ FGt(score, F_0_5)

\* if best_match and best_score > 0.3
accepted(match, score) == match # 0 /\ FGt(score, Threshold)

\* a correction that re-renders the citation even when the years agree
corrected_citation_always(citation, author, year, ref_year) ==
    IF ~Falsy(ref_year) /\ ~Falsy(year)
    THEN author \o <<"FWL">> \o ref_year \o <<"FWR">>
    ELSE citation

\* f"{citation_author}FWL{best_ref_year}FWR" when the years differ, else citation
corrected_citation(citation, author, year, ref_year) ==
    IF ~Falsy(ref_year) /\ ~Falsy(year) /\ ref_year # year
    THEN author \o <<"FWL">> \o ref_year \o <<"FWR">>
    ELSE citation

\* mapper, after the loop: the return value
SelectMatch ==
    /\ pc = "scan"
    /\ ri > Len(references)
    /\ result' =
           IF accepted(best_match, best_score)
           THEN [reference |-> best_match,
                 corrected_citation |->
                     corrected_citation(citations[ci].text, citation_author,
                                        citation_year, best_ref_year),
                 original_citation |-> citations[ci].text]
           ELSE NoResult
    /\ pc' = "report"
    /\ UNCHANGED << citations, references, ci, citation_author, citation_year, ri,
                    best_match, best_score, best_ref_year, scores, reportVars,
                    unused_references, yearVars, directVars, batchVars >>

\* needs_correction = result['corrected_citation'] != result['original_citation']
needs_correction(res) == res.corrected_citation # res.original_citation

\* reference_dicts[k]['year']
reference_dict_year(ref) == IF ref.year # None THEN ref.year ELSE ref.text

\* re.search(r'FWL(\d{4})FWR', corrected): the group of the leftmost match,
\* None without match
year_in_corrected(corrected) ==
    LET at == {i \in 1..Len(corrected) :
                  /\ i + 5 <= Len(corrected)
                  /\ corrected[i] = "FWL"
                  /\ AllIn(corrected, i + 1, i + 4, Digits)
                  /\ corrected[i + 5] = "FWR"}
    IN  IF at = {} THEN None ELSE SubSeq(corrected, Least(at) + 1, Least(at) + 4)

\* result['formatted_citation'] for the mapper's result res, ref its reference
\* the year the citation is formatted with: that of the reference, else the
\* one found in the corrected citation
format_year(ref_year, corrected) ==
    IF Falsy(ref_year) /\ year_in_corrected(corrected) # None
    THEN year_in_corrected(corrected)
    ELSE ref_year

\* `if year and authors:` format_citation_by_authors(...), else corrected
format_if_known(extracted, year, corrected) ==
    IF ~Falsy(year) /\ extracted.authors # <<>>
    THEN format_citation_by_authors(extracted.authors, year, corrected,
                                    extracted.has_et_al)
    ELSE corrected

formatted_citation(res, ref) ==
    format_if_known(extract_authors_from_reference(ref.text),
                    format_year(reference_dict_year(ref), res.corrected_citation),
                    res.corrected_citation)

\* (reference_text[:100] + "...") if len(reference_text) > 100 else reference_text
truncated(reference_text) ==
    IF Len(reference_text) > 100
    THEN Prefix(reference_text, 100) \o <<".", ".", ".">>
    ELSE reference_text

\* report_entry of citation i, matched by the mapper's result res to ref, with
\* formatted its formatted citation (a key the code leaves unset is None)
report_entry(i, res, ref, formatted) ==
    LET correct == needs_correction(res)
        format == formatted # res.corrected_citation
    IN  [citation_index |-> i, original_citation |-> res.original_citation,
         matched |-> TRUE, needs_correction |-> correct, needs_formatting |-> format,
         reference_text |-> ref.text,
         corrected_citation |->
             IF correct \/ format THEN res.corrected_citation ELSE None,
         formatted_citation |-> IF format THEN formatted ELSE None]

matched_entry(i, res, ref) == report_entry(i, res, ref, formatted_citation(res, ref))

\* a counter incremented for every matched citation
incremented_always(counter, needed) == counter + 1

\* `if needs_correction: corrected_count += 1`, and the like
incremented(counter, needed) == IF needed THEN counter + 1 ELSE counter

\* check: `if result:` ... `results.append(report_entry)`
ReportCitation ==
    /\ pc = "report"
    /\ IF result # NoResult
       THEN /\ results' = Append(results,
                   matched_entry(ci, result, references[result.reference]))
            /\ LET entry == results'[Len(results')]
               IN  /\ matched_count' = matched_count + 1
                   /\ all_mapping_results' = Append(all_mapping_results, result)
                   /\ corrected_count' =
                          incremented(corrected_count, entry.needs_correction)
                   /\ corrections_needed' =
                          IF entry.needs_correction
                          THEN Append(corrections_needed,
                                   [original |-> result.original_citation,
                                    corrected |-> result.corrected_citation,
                                    reference |-> truncated(entry.reference_text)])
                          ELSE corrections_needed
                   /\ formatted_count' =
                          incremented(formatted_count, entry.needs_formatting)
                   /\ formatting_needed' =
                          IF entry.needs_formatting
                          THEN Append(formatting_needed,
                                   [original |-> IF entry.needs_correction
                                                 THEN result.corrected_citation
                                                 ELSE result.original_citation,
                                    formatted |-> entry.formatted_citation,
                                    reference |-> truncated(entry.reference_text)])
                          ELSE formatting_needed
            /\ UNCHANGED unmatched_count
       ELSE /\ unmatched_count' = unmatched_count + 1
            /\ results' = Append(results, unmatched_entry(ci, citations[ci].text))
            /\ UNCHANGED << matched_count, corrected_count, all_mapping_results,
                            formatted_count, corrections_needed, formatting_needed >>
    /\ ci' = ci + 1
    /\ pc' = "next"
    /\ UNCHANGED << citations, references, mapperVars, unused_references, yearVars,
                    directVars, batchVars >>

\* check, after the loop: used_references / unused_references by text
Finish ==
    /\ pc = "next"
    /\ ci > Len(citations)
    /\ LET used == {references[all_mapping_results[k].reference].text :
                        k \in 1..Len(all_mapping_results)}
       IN  unused_references' =
               {r \in 1..Len(references) : references[r].text \notin used}
    /\ pc' = "done"
    /\ UNCHANGED << citations, references, ci, mapperVars, reportVars, yearVars, directVars, batchVars >>

Next ==
    \/ RecordNumeric
    \/ ParseCitation
    \/ ScoreReference
    \/ SelectMatch
    \/ ReportCitation
    \/ Finish

Spec == Init /\ [][Next]_vars

\* is_compliant = unmatched_count == 0
is_compliant == unmatched_count = 0

(***************************************************************************)
(* CitationChecker.check on documents of several citations, with texts      *)
(* that are no str and references built without a year                      *)
(***************************************************************************)
MaxCheckCitations == 3
MaxCheckRefs == 2

LiWuReference ==
    Li \o <<",", " ", "T", ".", " ", "&", " ">> \o Wu \o <<",", " ", "K", ".", " ", "(">>
        \o Y2020 \o <<")", ".">>                             \* Li, T. & Wu, K. (2020).

CheckCitations ==
    { [text |-> Smith \o <<"FWL">> \o Y2O2O \o <<"FWR">>, format_type |-> "author_year"],
      [text |-> Li \o <<" ", "(">> \o Y2020 \o <<")">>, format_type |-> "author_year"],
      [text |-> None, format_type |-> "author_year"],
      [text |-> <<"[", "1", "]">>, format_type |-> "number"] }

CheckReferences ==
    { Reference(Smith \o <<",", " ", "J", ".", " ", "(">> \o Y2020 \o <<")", ".">>),
      [text |-> Smith \o <<",", " ", "J", ".", " ", "(">> \o Y2020 \o <<")", ".">>,
       year |-> None],
      Reference(LiWuReference),
      [text |-> IntValue, year |-> None] }

InitCheck ==
    /\ citations \in SeqsUpTo(CheckCitations, MaxCheckCitations)
    /\ references \in SeqsUpTo(CheckReferences, MaxCheckRefs)
    /\ pc = "next"
    /\ ci = 1
    /\ citation_author = None /\ citation_year = None
    /\ ri = 1
    /\ best_match = 0 /\ best_score = FZero /\ best_ref_year = None
    /\ scores = <<>>
    /\ result = NoResult
    /\ results = <<>>
    /\ matched_count = 0 /\ unmatched_count = 0 /\ corrected_count = 0
    /\ formatted_count = 0
    /\ corrections_needed = <<>> /\ formatting_needed = <<>>
    /\ all_mapping_results = <<>>
    /\ unused_references = {}
    /\ IdleYear /\ IdleDirect /\ IdleBatch

SpecCheck == InitCheck /\ [][Next]_vars

(***************************************************************************)
(* Direct calls of is_ocr_error and calculate_year_match_score              *)
(***************************************************************************)
YearAlphabet == {"0", "1", "2", "7", "O"}

\* the strings of four characters of YearAlphabet, and some of other lengths
YearStrings ==
    [1..4 -> YearAlphabet] \cup {<<>>, <<"2", "0", "2">>, <<"2", "0", "2", "0", "1">>}

InitYear ==
    /\ year1 \in YearStrings
    /\ year2 \in YearStrings \cup {None}
    /\ year_text \in {<<>>, <<",", " ">> \o year1}
    /\ ocr_result = FALSE
    /\ year_score = FZero
    /\ pc = "year"
    /\ IdleCheck /\ IdleDirect /\ IdleBatch

\* is_ocr_error(year1, year2), both str
CallIsOcrError ==
    /\ pc = "year"
    /\ year2 # None
    /\ ocr_result' = is_ocr_error(year1, year2)
    /\ pc' = "year_score"
    /\ UNCHANGED << citations, references, ci, mapperVars, reportVars,
                    unused_references, year1, year2, year_text, year_score,
                    directVars, batchVars >>

\* calculate_year_match_score(year1, year_text, year2), year2 an Optional[str]
CallYearMatchScore ==
    /\ pc = "year_score" \/ (pc = "year" /\ year2 = None)
    /\ year_score' = calculate_year_match_score(year1, year_text, year2)
    /\ pc' = "year_done"
    /\ UNCHANGED << citations, references, ci, mapperVars, reportVars,
                    unused_references, year1, year2, year_text, ocr_result,
                    directVars, batchVars >>

NextYear ==
    \/ CallIsOcrError
    \/ CallYearMatchScore

SpecYear == InitYear /\ [][NextYear]_vars

(***************************************************************************)
(* Direct calls of calculate_author_match_score                             *)
(***************************************************************************)
\* n characters that occur in no author name
Pad(n) == [i \in 1..n |-> "-"]

AuthorStrings ==
    { Smith, <<"s", "m", "i", "t", "h", " ">>, <<"S", "m", "i">>, <<"S", "m", "y", "t", "h">>,
      Li, <<" ", "L", "I">>, Wu, <<>> }

AuthorTexts ==
    { Smith \o <<",", " ", "J", ".", " ", "(">> \o Y2020 \o <<")", ".">>,
      Pad(99) \o <<"L", "i", " ">> \o Smith,
      Pad(100) \o Li,
      Pad(199) \o <<"W", "U">>,
      Pad(200) \o <<"w", "u", " ">> \o Smith,
      <<>> }

InitAuthor ==
    /\ arg_citation_author \in AuthorStrings
    /\ arg_reference_text \in AuthorTexts
    /\ arg_ref_author \in AuthorStrings
    /\ author_score = FZero
    /\ parsed_author = None /\ parsed_year = None
    /\ pc = "author"
    /\ IdleCheck /\ IdleYear /\ IdleBatch /\ IdleFormat

\* calculate_author_match_score(citation_author, reference_text, ref_author)
CallAuthorMatchScore ==
    /\ pc = "author"
    /\ author_score' =
           calculate_author_match_score(arg_citation_author, arg_reference_text,
                                        arg_ref_author)
    /\ pc' = "author_done"
    /\ UNCHANGED << arg_citation_author, arg_reference_text, arg_ref_author,
                    parsed_author, parsed_year, formatVars, checkVars, yearVars,
                    batchVars >>

NextAuthor == CallAuthorMatchScore

SpecAuthor == InitAuthor /\ [][NextAuthor]_vars

(***************************************************************************)
(* Direct calls of extract_author_year_from_reference                       *)
(***************************************************************************)
\* leading labels: two that the parser removes, none, and one it keeps
ReferenceLabels ==
    { <<>>,
      <<"[", "1", "2", "]", " ">>,
      <<" ", "[", "7", "]">>,
      <<"[", "a", "]", " ">> }

\* what an entry begins with, up to its first "." or ","
ReferenceAuthors ==
    { <<"L", "i">>,
      <<"L", "i", "DENG">>,
      <<"L", "i", "DENG", "DENG">>,
      <<"L", "i", " ", "e", "t", " ", "a", "l">>,
      <<"L", "i", "DENG", " ", "e", "t", " ", "a", "l">>,
      <<"L", "i", "FWC", "W", "u", "DENG">>,
      <<" ", "W", "u", " ", "e", "t", " ", "a", "l", "DENG">>,
      <<>> }

ReferenceTerminators ==
    { <<".">>,
      <<",">>,
      <<" ">> }

\* one piece for each of the year_patterns, and two that are no year
YearFragments ==
    { <<>>,
      <<"(", "2", "0", "2", "0", ")">>,
      <<"(", "2", "0", "2", "1", ")", ".">>,
      <<",", " ", "2", "0", "1", "9", ",">>,
      <<",", "2", "0", "1", "8", ")">>,
      <<",", " ", "2", "0", "1", "7", ".">>,
      <<",", " ", " ", "2", "0", "1", "6">>,
      <<":", " ", "2", "0", "1", "5", ".">>,
      <<":", "2", "0", "1", "4">>,
      <<" ", "2", "0", "1", "3", ".">>,
      <<" ", "2", "0", "1", "2">>,
      <<" ", "2", "0", "2", "0", "1">>,
      <<"(", "2", "0", ")">> }

\* label, authors, terminator, and a title and a journal each followed by a
\* year fragment
ReferenceEntries ==
    { l \o a \o e \o <<" ", "T">> \o f \o <<" ", "J">> \o g :
        l \in ReferenceLabels, a \in ReferenceAuthors, e \in ReferenceTerminators,
        f \in YearFragments, g \in YearFragments }

InitReference ==
    /\ arg_reference_text \in ReferenceEntries
    /\ arg_citation_author = None /\ arg_ref_author = None
    /\ author_score = FZero
    /\ parsed_author = None /\ parsed_year = None
    /\ pc = "reference"
    /\ IdleCheck /\ IdleYear /\ IdleBatch /\ IdleFormat

\* author, year = extract_author_year_from_reference(reference_text)
CallExtractFromReference ==
    /\ pc = "reference"
    /\ \E parsed \in {extract_author_year_from_reference(arg_reference_text)} :
           parsed_author' = parsed.author /\ parsed_year' = parsed.year
    /\ pc' = "reference_done"
    /\ UNCHANGED << arg_citation_author, arg_reference_text, arg_ref_author,
                    author_score, formatVars, checkVars, yearVars, batchVars >>

NextReference == CallExtractFromReference

SpecReference == InitReference /\ [][NextReference]_vars

(***************************************************************************)
(* Direct calls of extract_authors_from_reference                           *)
(***************************************************************************)
MaxListedAuthors == 3

\* authors written 'Surname, Initials.'
ListedNames ==
    { <<"S", "m", "i", "t", "h", ",", " ", "J", ".">>,
      <<"L", "i", ",", " ", "T", ".">>,
      <<"W", "u", ",", " ", "K", ".", " ", "A", ".">> }

\* what stands between the last two authors
Joiners ==
    { <<",", " ">>,
      <<",", " ", "&", " ">>,
      <<" ", "&", " ">>,
      <<" ", "a", "n", "d", " ">> }

\* what follows the authors: the year in parentheses, or the title
AfterAuthors ==
    { <<" ", "(", "2", "0", "2", "0", ")", ".", " ", "T", ".">>,
      <<" ", "T", ".", " ", "J", ",", " ", "2", "0", "2", "0", ".">> }

\* entries of other forms, with and without "et al", of both language branches
OtherEntries ==
    { <<"S", "m", "i", "t", "h", " ", "e", "t", " ", "a", "l", ".", " ", "(", "2", "0", "2", "0", ")", ".", " ", "T", ".">>,
      <<"S", "m", "i", "t", "h", ",", " ", "J", ".", ",", " ", "L", "i", ",", " ", "T", ".", ",", " ", "e", "t", " ", "a", "l", ".", " ", "(", "2", "0", "2", "0", ")", ".", " ", "T", ".">>,
      <<"S", "m", "i", "t", "h", ",", " ", "J", ".", " ", "(", "2", "0", "2", "0", ")", ".", " ", "T", ".", " ", "I", "n", " ", "W", "u", " ", "E", "T", " ", "A", "L", ".">>,
      <<"S", "m", "i", "t", "h", " ", "J", ",", " ", "L", "i", " ", "T", ".", " ", "T", ".", " ", "2", "0", "2", "0", ".">>,
      <<"J", ".", " ", "S", "m", "i", "t", "h", " ", "a", "n", "d", " ", "T", ".", " ", "L", "i", " ", "(", "2", "0", "2", "0", ")", ".", " ", "T", ".">>,
      <<"S", "m", "i", "t", "h">>,
      <<>>,
      <<"ZHANG", "FWC", "L", "i", ".", " ", "T", ".", " ", "QI", "KAN", ",", " ", "2", "0", "2", "0", ".">>,
      <<"ZHANG", " ", "e", "t", " ", "a", "l", ".", " ", "T", ".", " ", "2", "0", "2", "0", ".">>,
      <<"L", "i", "FWC", "W", "u", " ", "E", "t", " ", "A", "l", ".", " ", "T", ".">>,
      <<"L", "i", ",", " ", "W", "u", "DENG", ".", " ", "T", ".", " ", "ZA", "ZHI", ".">>,
      <<"S", "m", "i", "t", "h", ",", " ", "J", ".", " ", "(", "2", "0", "2", "0", ")", ".", " ", "T", "FWS", "e", "t", " ", "a", "l">>,
      <<"ZHANG", "FWC", "DENG", ".", " ", "T", ".">> }

\* the authors from the k-th on, ", " between them and joiner before the last
RECURSIVE listed(_, _, _)
listed(names, k, joiner) ==
    IF k > Len(names) THEN <<>>
    ELSE IF k = Len(names) THEN names[k]
    ELSE names[k] \o (IF k + 1 = Len(names) THEN joiner ELSE <<",", " ">>)
             \o listed(names, k + 1, joiner)

InitAuthors ==
    /\ \/ /\ arg_authors \in SeqsUpTo(ListedNames, MaxListedAuthors) \ {<<>>}
          /\ \E joiner \in Joiners, after \in AfterAuthors :
                 arg_reference_text = listed(arg_authors, 1, joiner) \o after
       \/ /\ arg_authors = <<>>
          /\ arg_reference_text \in OtherEntries
    /\ arg_year = None /\ arg_has_et_al = FALSE /\ arg_name = None
    /\ arg_original_citation = None
    /\ ret_authors = <<>> /\ ret_has_et_al = FALSE
    /\ ret_formatted = None /\ ret_surname = None
    /\ arg_citation_author = None /\ arg_ref_author = None
    /\ author_score = FZero
    /\ parsed_author = None /\ parsed_year = None
    /\ pc = "authors"
    /\ IdleCheck /\ IdleYear /\ IdleBatch

\* authors, has_et_al = extract_authors_from_reference(reference_text)
CallExtractAuthors ==
    /\ pc = "authors"
    /\ \E extracted \in {extract_authors_from_reference(arg_reference_text)} :
           ret_authors' = extracted.authors /\ ret_has_et_al' = extracted.has_et_al
    /\ pc' = "authors_done"
    /\ UNCHANGED << arg_authors, arg_year, arg_has_et_al, arg_name,
                    arg_original_citation, ret_formatted,
                    ret_surname, arg_citation_author, arg_reference_text,
                    arg_ref_author, author_score, parsed_author, parsed_year,
                    checkVars, yearVars, batchVars >>

NextAuthors == CallExtractAuthors

SpecAuthors == InitAuthors /\ [][NextAuthors]_vars

(***************************************************************************)
(* Direct calls of format_citation_by_authors and of the surname            *)
(* extraction routines                                                      *)
(***************************************************************************)
MaxFormatAuthors == 3

\* elements of an author list
FormatAuthors ==
    { <<"S", "m", "i", "t", "h", " ", "J", ".">>,
      <<"L", "i">>,
      <<"W", "H", "O">>,
      <<"W", "o", "r", "l", "d", " ", "H", "e", "a", "l", "t", "h", " ", "O", "r", "g", "a", "n", "i", "z", "a", "t", "i", "o", "n">>,
      <<"J", "a", "n", " ", "v", "a", "n", " ", "D", "i", "j", "k">>,
      <<"ZHANG", "SAN">> }

\* names given to the surname extraction routines
SurnameNames ==
    { <<"S", "m", "i", "t", "h", ",", " ", "J", ".">>,
      <<"J", ".", " ", "S", "m", "i", "t", "h">>,
      <<"S", "m", "i", "t", "h", " ", "J">>,
      <<"J", "a", "n", " ", "v", "a", "n", " ", "D", "i", "j", "k">>,
      <<"C", ".", " ", "V", "a", "n", " ", "D", "e", "n", " ", "H", "e", "u", "v", "e", "l">>,
      <<"V", "a", "n", " ", "D", "e", "n", " ", "H", "e", "u", "v", "e", "l">>,
      <<"S", "m", "i", "t", "h">>,
      <<"J", "o", "h", "n", " ", "S", "m", "i", "t", "h">>,
      <<"S", "m", "i", "t", "h", " ", "e", "t", " ", "a", "l", ".">>,
      <<"W", "O", "R", "L", "D", " ", "H", "E", "A", "L", "T", "H", " ", "O", "R", "G", "A", "N", "I", "Z", "A", "T", "I", "O", "N">>,
      <<" ", "L", "i", " ", "DENG">>,
      <<"D", "i", "j", "k", ",", " ", "J", "a", "n", " ", "v", "a", "n">>,
      <<>>,
      <<" ", " ">> }

OriginalCitation == Smith \o <<"FWL">> \o Y2O2O \o <<"FWR">>

InitFormat ==
    /\ \/ /\ arg_authors \in SeqsUpTo(FormatAuthors, MaxFormatAuthors)
          /\ arg_year = Y2020
          /\ arg_has_et_al \in BOOLEAN
          /\ arg_original_citation = OriginalCitation
          /\ arg_name = None
          /\ pc = "format"
       \/ /\ arg_authors = <<>> /\ arg_year = None /\ arg_has_et_al = FALSE
          /\ arg_original_citation = None
          /\ arg_name \in SurnameNames
          /\ pc = "surname"
    /\ ret_authors = <<>> /\ ret_has_et_al = FALSE
    /\ ret_formatted = None /\ ret_surname = None
    /\ arg_citation_author = None /\ arg_reference_text = None
    /\ arg_ref_author = None
    /\ author_score = FZero
    /\ parsed_author = None /\ parsed_year = None
    /\ IdleCheck /\ IdleYear /\ IdleBatch

\* format_citation_by_authors(authors, year, original_citation, has_et_al)
CallFormatCitation ==
    /\ pc = "format"
    /\ ret_formatted' = format_citation_by_authors(arg_authors, arg_year,
                                                   arg_original_citation, arg_has_et_al)
    /\ pc' = "format_done"
    /\ UNCHANGED << arg_authors, arg_year, arg_has_et_al, arg_name,
                    arg_original_citation, ret_authors, ret_has_et_al, ret_surname,
                    arg_citation_author, arg_reference_text, arg_ref_author,
                    author_score, parsed_author, parsed_year,
                    checkVars, yearVars, batchVars >>

\* extract_surname(name) of reference_mapper.py, CitationFormatter's
\* _extract_surname(name) and extract_surname(name) of citation_extractor.py
CallExtractSurname ==
    /\ pc = "surname"
    /\ ret_surname' = [reference_mapper |-> extract_surname(arg_name),
                       CitationFormatter |-> CitationFormatter_extract_surname(arg_name),
                       citation_extractor |-> citation_extractor_extract_surname(arg_name)]
    /\ pc' = "surname_done"
    /\ UNCHANGED << arg_authors, arg_year, arg_has_et_al, arg_name,
                    arg_original_citation, ret_authors, ret_has_et_al, ret_formatted,
                    arg_citation_author, arg_reference_text, arg_ref_author,
                    author_score, parsed_author, parsed_year,
                    checkVars, yearVars, batchVars >>

NextFormat ==
    \/ CallFormatCitation
    \/ CallExtractSurname

SpecFormat == InitFormat /\ [][NextFormat]_vars

(***************************************************************************)
(* CitationChecker.check on documents with Chinese references and with      *)
(* references that share the cited year but not the cited author, next to   *)
(* the direct calls of the formatter                                        *)
(***************************************************************************)
MaxScenarioCitations == 1
MaxScenarioRefs == 2

ZhangSan == <<"ZHANG", "SAN">>
Y2024 == <<"2", "0", "2", "4">>
ZhangSanCitation == ZhangSan \o <<"FWL">> \o Y2024 \o <<"FWR">>
ZhangSanLiSiReference == <<"ZHANG", "SAN", "FWC", "LI3", "SI", ".", " ", "BIAO", "TI", ".", " ", "QI", "KAN", ",", " ", "2", "0", "2", "4", ".">>

ScenarioCitations ==
    { [text |-> ZhangSanCitation, format_type |-> "author_year"],
      [text |-> Wu \o <<"FWL">> \o Y1987 \o <<"FWR">>, format_type |-> "author_year"],
      [text |-> Smith \o <<"FWL">> \o Y2024 \o <<"FWR">>, format_type |-> "author_year"],
      [text |-> <<"[", "1", "]">>, format_type |-> "number"] }

ScenarioReferenceTexts ==
    { ZhangSanLiSiReference,
      <<"ZHANG", "SAN", ".", " ", "BIAO", "TI", ".", " ", "QI", "KAN", ",", " ", "2", "0", "2", "4", ".">>,
      <<"L", "i", ",", " ", "T", ".", " ", "(", "1", "9", "8", "7", ")", ".">>,
      <<"L", "i", ".", " ", "T", " ", "(", "1", "9", "9", "9", ")", ",", " ", "1", "9", "8", "7", ".">>,
      <<"S", "m", "y", "t", "h", ",", " ", "K", ".", " ", "(", "1", "9", "9", "9", ")", ".">> }

ScenarioReferences == {Reference(t) : t \in ScenarioReferenceTexts}

InitDocument ==
    /\ citations \in SeqsUpTo(ScenarioCitations, MaxScenarioCitations)
    /\ references \in SeqsUpTo(ScenarioReferences, MaxScenarioRefs)
    /\ pc = "next"
    /\ ci = 1
    /\ citation_author = None /\ citation_year = None
    /\ ri = 1
    /\ best_match = 0 /\ best_score = FZero /\ best_ref_year = None
    /\ scores = <<>>
    /\ result = NoResult
    /\ results = <<>>
    /\ matched_count = 0 /\ unmatched_count = 0 /\ corrected_count = 0
    /\ formatted_count = 0
    /\ corrections_needed = <<>> /\ formatting_needed = <<>>
    /\ all_mapping_results = <<>>
    /\ unused_references = {}
    /\ IdleYear /\ IdleDirect /\ IdleBatch

InitScenario == InitDocument \/ InitFormat

NextScenario == Next \/ NextFormat

SpecScenario == InitScenario /\ [][NextScenario]_vars

(***************************************************************************)
(* BatchProcessor.process: the calling thread and the worker threads of the *)
(* ThreadPoolExecutor.  A future is identified by its position in the       *)
(* order of submission; a result and a failed_files entry carry the future  *)
(* they come from, which stands for the identity of the object.             *)
(***************************************************************************)
MaxPaths == 3
MaxWorkers == 2

Paths == {"a.docx", "b.pdf"}

InitBatch ==
    /\ file_paths \in SeqsUpTo(Paths, MaxPaths)
    /\ workers \in UNION {[1..n -> {0}] : n \in 1..MaxWorkers}    \* max_workers >= 1
    /\ futures = <<>>
    /\ work_queue = <<>>
    /\ collected = {}
    /\ batch_results = <<>>
    /\ failed_files = <<>>
    /\ pc = "submit"
    /\ IdleCheck /\ IdleYear /\ IdleDirect

\* executor.submit(self._process_single_document, file_path, config)
Submit ==
    /\ pc = "submit"
    /\ Len(futures) < Len(file_paths)
    /\ futures' = Append(futures,
           [path |-> file_paths[Len(futures) + 1], state |-> "pending"])
    /\ work_queue' = Append(work_queue, Len(futures) + 1)
    /\ UNCHANGED << pc, file_paths, workers, collected, batch_results, failed_files,
                    checkVars, yearVars, directVars >>

\* the dict comprehension is complete: as_completed(future_to_path) starts
StartCollect ==
    /\ pc = "submit"
    /\ Len(futures) = Len(file_paths)
    /\ pc' = "collect"
    /\ UNCHANGED << batchVars, checkVars, yearVars, directVars >>

\* worker thread w takes the next work item of the queue
StartWork(w) ==
    /\ w <= Len(workers)
    /\ workers[w] = 0
    /\ work_queue # <<>>
    /\ workers' = [workers EXCEPT ![w] = Head(work_queue)]
    /\ work_queue' = Tail(work_queue)
    /\ futures' = [futures EXCEPT ![Head(work_queue)].state = "running"]
    /\ UNCHANGED << pc, file_paths, collected, batch_results, failed_files,
                    checkVars, yearVars, directVars >>

\* _process_single_document returns or raises in worker thread w; the future
\* keeps the result or the exception
FinishWork(w) ==
    /\ w <= Len(workers)
    /\ workers[w] # 0
    /\ \E outcome \in {"result", "exception"} :
           futures' = [futures EXCEPT ![workers[w]].state = outcome]
    /\ workers' = [workers EXCEPT ![w] = 0]
    /\ UNCHANGED << pc, file_paths, work_queue, collected, batch_results, failed_files,
                    checkVars, yearVars, directVars >>

\* an except clause that logs the error and records nothing
collect_future_unrecorded(i, future, lists) ==
    IF future.state = "result"
    THEN [lists EXCEPT !.results = Append(@, [document |-> future.path, future |-> i])]
    ELSE lists

\* the body of the loop over as_completed for future i: results and
\* failed_files, as a record, after future.result() returned or raised
collect_future(i, future, lists) ==
    IF future.state = "result"
    THEN [lists EXCEPT !.results = Append(@, [document |-> future.path, future |-> i])]
    ELSE [lists EXCEPT !.failed = Append(@, [document |-> future.path, future |-> i,
                                            status |-> "failed"])]

\* as_completed yields a finished future that it has not yielded yet
Collect ==
    /\ pc = "collect"
    /\ \E i \in 1..Len(futures) :
           /\ i \notin collected
           /\ futures[i].state \in {"result", "exception"}
           /\ collected' = collected \cup {i}
           /\ LET lists == collect_future(i, futures[i],
                               [results |-> batch_results, failed |-> failed_files])
              IN  /\ batch_results' = lists.results
                  /\ failed_files' = lists.failed
    /\ UNCHANGED << pc, file_paths, futures, work_queue, workers,
                    checkVars, yearVars, directVars >>

\* as_completed is exhausted; the with block ends and process returns
Return ==
    /\ pc = "collect"
    /\ collected = 1..Len(futures)
    /\ pc' = "returned"
    /\ UNCHANGED << batchVars, checkVars, yearVars, directVars >>

NextBatch ==
    \/ Submit
    \/ StartCollect
    \/ \E w \in 1..MaxWorkers : StartWork(w)
    \/ \E w \in 1..MaxWorkers : FinishWork(w)
    \/ Collect
    \/ Return

\* every thread keeps running, and the processing of a document ends
FairBatch ==
    /\ WF_vars(Submit)
    /\ WF_vars(StartCollect)
    /\ \A w \in 1..MaxWorkers : WF_vars(StartWork(w)) /\ WF_vars(FinishWork(w))
    /\ WF_vars(Collect)
    /\ WF_vars(Return)

SpecBatch == InitBatch /\ [][NextBatch]_vars /\ FairBatch

(***************************************************************************)
(* Properties of the mapper                                                 *)
(***************************************************************************)
\* the citation marker matches one of the two '<author>(YYYY)' patterns
CitationParses(text) ==
    FullWidthGroup1(strip(text)) # {} \/ LatinGroup1(strip(text)) # {}

\* the mapper has returned for the current citation
Returned == pc = "report"

Matched == result # NoResult

\* the references scored in the scan so far
Scored == {k \in 1..Len(scores) : scores[k].scored}

\* the first reference with the highest total_score among the scored ones,
\* 0 when none was scored or none scored above 0
FirstArgmax ==
    LET top == {k \in Scored : \A j \in Scored :
                    ~FGt(scores[j].total_score, scores[k].total_score)}
    IN  IF top = {} \/ \A k \in Scored : scores[k].total_score = FZero
        THEN 0 ELSE Least(top)

\* author and year extracted from reference k of the list
RefAuthor(k) == extract_author_year_from_reference(references[k].text).author
RefYear(k) == extract_author_year_from_reference(references[k].text).year

\* C1: the mapper reports a match exactly when the citation parses and the
\* highest total_score among the scored references is above 0.3; otherwise,
\* an empty reference list included, it returns None.
C1_MatchedIffAboveThreshold ==
    Returned =>
        (Matched <=>
            /\ CitationParses(citations[ci].text)
            /\ \E k \in Scored : FGt(scores[k].total_score, Threshold))

\* a citation that parses, with a scored reference of positive score, is
\* reported unmatched
C1_Witness ==
    /\ Returned /\ ~Matched
    /\ CitationParses(citations[ci].text)
    /\ \E k \in Scored : FGt(scores[k].total_score, FZero)

\* C2: after every prefix of the scan the tracked candidate is the first
\* reference with the highest total_score of those scored so far, and the
\* reference of a match is that candidate of the whole list.
C2_BestIsFirstArgmax ==
    /\ pc = "scan" =>
           /\ best_match = FirstArgmax
           /\ best_match # 0 => best_score = scores[best_match].total_score
           /\ \A k \in Scored :
                  scores[k].total_score =
                      total_score(scores[k].author_score, scores[k].year_score)
    /\ (Returned /\ Matched) => result.reference = FirstArgmax

\* two references share the highest score and the first is the match
C2_Witness ==
    /\ Returned /\ Matched
    /\ result.reference = 1
    /\ 2 \in Scored
    /\ scores[2].total_score = scores[1].total_score

\* C3: when the year of the selected reference differs from the cited year,
\* corrected_citation is the citation's author followed by that reference's
\* year between full-width parentheses.
C3_CorrectedYearOfSelected ==
    (Returned /\ Matched) =>
        LET ref_year == RefYear(result.reference)
            cited == extract_author_year_from_citation(citations[ci].text)
        IN  (ref_year # None /\ ref_year # cited.year) =>
                result.corrected_citation =
                    cited.author \o <<"FWL">> \o ref_year \o <<"FWR">>

\* a corrected citation, with a later reference of yet another year in the list
C3_Witness ==
    /\ Returned /\ Matched
    /\ result.corrected_citation # result.original_citation
    /\ \E k \in 1..Len(references) :
           /\ k > result.reference
           /\ RefYear(k) \notin {None, RefYear(result.reference), citation_year}

\* the report entries that needed a year correction
Corrected == {k \in 1..Len(results) : results[k].needs_correction}

\* C4: a match whose reference has the cited year leaves the citation text as
\* it is, and the citation is not counted in corrected_count.
C4_SameYearNoCorrection ==
    /\ (Returned /\ Matched /\ RefYear(result.reference) = citation_year) =>
           result.corrected_citation = citations[ci].text
    /\ \A k \in 1..Len(results) :
           (/\ results[k].matched
            /\ extract_author_year_from_reference(results[k].reference_text).year =
                   extract_author_year_from_citation(results[k].original_citation).year)
               => ~results[k].needs_correction
    /\ corrected_count = Cardinality(Corrected)

\* a Latin-parenthesis citation matched to a reference of the same year has
\* been reported
C4_Witness ==
    /\ Len(results) = 1
    /\ results[1].matched
    /\ Contains(results[1].original_citation, <<"(">>)
    /\ extract_author_year_from_reference(results[1].reference_text).year =
           extract_author_year_from_citation(results[1].original_citation).year
    /\ corrected_count = 0

\* C5: a citation that matches neither pattern is reported unmatched without
\* a reference being scored; a reference without a primary author is skipped
\* and never selected.
C5_ParseFailuresExcluded ==
    /\ (Returned /\ ~CitationParses(citations[ci].text)) =>
           (~Matched /\ scores = <<>> /\ best_match = 0)
    /\ \A k \in 1..Len(scores) :
           Falsy(RefAuthor(k)) =>
               (~scores[k].scored /\ best_match # k /\ result.reference # k)

\* the scan has skipped a reference without primary author that names the
\* citation's author and year, and the citation is unmatched
C5_Witness ==
    /\ Returned /\ ~Matched
    /\ \E k \in 1..Len(scores) :
           /\ Falsy(RefAuthor(k))
           /\ Contains(references[k].text, citation_author)
           /\ Contains(references[k].text, citation_year)

(***************************************************************************)
(* Properties of the year scorer                                            *)
(***************************************************************************)
\* a and b are distinct years of four characters, and wherever they differ
\* one has a digit and the other a letter that ocr_to_digit sends to that digit
OcrSubstitution(a, b) ==
    /\ Len(a) = 4 /\ Len(b) = 4
    /\ a # b
    /\ \A i \in 1..4 :
           \/ a[i] = b[i]
           \/ (a[i] \in Digits /\ b[i] \in DOMAIN ocr_to_digit /\ ocr_to_digit[b[i]] = a[i])
           \/ (b[i] \in Digits /\ a[i] \in DOMAIN ocr_to_digit /\ ocr_to_digit[a[i]] = b[i])

\* C6: for two years that differ by OCR-confusable substitutions is_ocr_error
\* returns true and calculate_year_match_score returns 0.9.
C6_OcrSubstitutionScores ==
    (year2 # None /\ OcrSubstitution(year1, year2)) =>
        /\ pc \in {"year_score", "year_done"} => ocr_result = TRUE
        /\ pc = "year_done" => year_score = F_0_9

\* both calls have returned for the years 2O2O and 2020
C6_Witness ==
    /\ pc = "year_done"
    /\ year1 = Y2O2O /\ year2 = Y2020
    /\ ocr_result = TRUE /\ year_score = F_0_9

\* C7 as stated: two years that differ in three or more character positions
\* are never reported OCR-confusable.
C7_RawDifferencesNotConfusable ==
    (/\ pc \in {"year_score", "year_done"}
     /\ Len(year1) = Len(year2)
     /\ Cardinality(diff_positions(year1, year2)) >= 3)
        => ocr_result = FALSE

\* C7 as amended: two years that, each OCR-normalized, differ in three or more
\* character positions are never reported OCR-confusable.
C7_NormalizedDifferencesNotConfusable ==
    (/\ pc \in {"year_score", "year_done"}
     /\ Len(year1) = Len(year2)
     /\ Cardinality(diff_positions(normalized_year(year1), normalized_year(year2))) >= 3)
        => ocr_result = FALSE

\* is_ocr_error has returned false for two years of four characters that
\* differ in three positions after normalization
C7_Witness ==
    /\ pc = "year_score"
    /\ Len(year1) = 4 /\ Len(year2) = 4
    /\ Cardinality(diff_positions(normalized_year(year1), normalized_year(year2))) = 3
    /\ \E i \in 1..4 : year1[i] \notin Digits
    /\ ocr_result = FALSE

\* a year was extracted from the reference
YearExtracted == ~Falsy(year2)

\* C17: the year score is 1.0 when the cited year is the extracted year, else
\* 0.9 when is_ocr_error holds of the two, else 0.8 when the cited year occurs
\* in the reference text, else 0.0; without extracted year it is 0.8 or 0.0.
C17_YearScoreTiers ==
    pc = "year_done" =>
        /\ (YearExtracted /\ year1 = year2) => year_score = F_1_0
        /\ (YearExtracted /\ year1 # year2 /\ ocr_result) => year_score = F_0_9
        /\ (~(YearExtracted /\ (year1 = year2 \/ ocr_result))
                /\ Contains(year_text, year1)) => year_score = F_0_8
        /\ (~(YearExtracted /\ (year1 = year2 \/ ocr_result))
                /\ ~Contains(year_text, year1)) => year_score = FZero
        /\ ~YearExtracted => year_score \in {F_0_8, FZero}

\* an OCR-confusable year that also occurs in the text has scored 0.9, not 0.8
C17_Witness ==
    /\ pc = "year_done"
    /\ YearExtracted /\ year1 # year2 /\ ocr_result
    /\ Contains(year_text, year1)
    /\ year_score = F_0_9

\* the confusion table as unordered pairs
TablePairs == {{ocr_errors[k][1], ocr_errors[k][2]} : k \in 1..Len(ocr_errors)}

\* the two years, normalized, and the positions at which these differ
Normalized1 == normalized_year(year1)
Normalized2 == normalized_year(year2)
NormalizedDiff == diff_positions(Normalized1, Normalized2)

\* is_ocr_error was called with two years of four characters
FourCharYears ==
    /\ pc \in {"year_score", "year_done"}
    /\ year2 # None
    /\ Len(year1) = 4 /\ Len(year2) = 4

\* what C18 says of years that are not of four characters, and of years that
\* differ in at most one position
C18_LengthAndSmallDifferences ==
    /\ (pc \in {"year_score", "year_done"} /\ year2 # None
            /\ (Len(year1) # 4 \/ Len(year2) # 4)) => ocr_result = FALSE
    /\ (FourCharYears /\ Cardinality(NormalizedDiff) <= 1) => ocr_result = TRUE

\* C18: two years that, normalized, differ in exactly two positions
\* are confusable exactly when at each of the two positions their characters
\* form a pair of the table; years equal or one position apart after
\* normalization are confusable; years not of four characters are not.
C18_EachPositionTablePair ==
    /\ C18_LengthAndSmallDifferences
    /\ (FourCharYears /\ Cardinality(NormalizedDiff) = 2) =>
           (ocr_result <=>
                \A i \in NormalizedDiff : {Normalized1[i], Normalized2[i]} \in TablePairs)

(***************************************************************************)
(* Scenarios of the mapper                                                  *)
(***************************************************************************)
\* the references whose primary author and year are those of the citation
Identical ==
    {k \in 1..Len(references) :
        RefAuthor(k) = citation_author /\ RefYear(k) = citation_year}

\* C8: when the list holds a reference whose primary author and year are
\* those of the parsed citation, that reference scores at least 0.94 and the
\* citation is matched, whatever else is in the list.
C8_IdenticalReferenceMatches ==
    (Returned /\ CitationParses(citations[ci].text)) =>
        \A k \in Identical :
            /\ scores[k].scored
            /\ FGe(scores[k].total_score, FDiv(94, 100))
            /\ Matched

\* matched with an identical reference that is second in a list whose first
\* reference scores too
C8_Witness ==
    /\ Returned /\ Matched
    /\ 2 \in Identical
    /\ 1 \in Scored \ Identical

SmithCitation == Smith \o <<"FWL">> \o Y2O2O \o <<"FWR">>
SmithReference == Smith \o <<",", " ", "J", ".", " ", "(">> \o Y2020 \o <<")", ".">>
SmithCorrected == Smith \o <<"FWL">> \o Y2020 \o <<"FWR">>

SmithScenario ==
    /\ Returned
    /\ citations[ci].text = SmithCitation
    /\ Len(references) = 1 /\ references[1].text = SmithReference

\* C9 as stated: in the Smith scenario the author score is 0.9, the year score
\* 0.9, the total at least 0.9, and the citation is matched and corrected.
C9_SmithAuthorScoreSubstring ==
    SmithScenario =>
        /\ scores[1].author_score = F_0_9
        /\ scores[1].year_score = F_0_9
        /\ FGe(scores[1].total_score, F_0_9)
        /\ Matched
        /\ result.corrected_citation = SmithCorrected

\* the references whose primary author is the cited author, case-folded, and
\* whose year differs from the cited year by OCR substitutions only
OcrTwins ==
    {k \in 1..Len(references) :
        /\ ~Falsy(RefAuthor(k))
        /\ lower(RefAuthor(k)) = lower(citation_author)
        /\ RefYear(k) # None
        /\ OcrSubstitution(citation_year, RefYear(k))}

\* C9 as amended: in the Smith scenario the author score is 1.0 (the primary
\* author of the reference is Smith itself), the year score 0.9, the total at
\* least 0.9, and the citation is matched and corrected to Smith(2020); and
\* whenever the list holds a reference with the cited author and a year that
\* differs by OCR substitutions only, that reference scores 1.0 and 0.9, the
\* citation is matched and, when that reference is the one selected,
\* corrected to its year.
C9_SmithAuthorScoreExact ==
    /\ SmithScenario =>
           /\ scores[1].author_score = F_1_0
           /\ scores[1].year_score = F_0_9
           /\ FGe(scores[1].total_score, F_0_9)
           /\ Matched
           /\ result.corrected_citation = SmithCorrected
    /\ (Returned /\ CitationParses(citations[ci].text)) =>
           \A k \in OcrTwins :
               /\ scores[k].author_score = F_1_0
               /\ scores[k].year_score = F_0_9
               /\ Matched
               /\ result.reference = k =>
                      result.corrected_citation =
                          citation_author \o <<"FWL">> \o RefYear(k) \o <<"FWR">>

\* the Smith scenario has been matched
C9_Witness == SmithScenario /\ Matched /\ OcrTwins = {1}

\* the citation's author and year occur in the text of no reference
AbsentFromTexts ==
    \A k \in 1..Len(references) :
        /\ ~Contains(references[k].text, citation_author)
        /\ ~Contains(references[k].text, citation_year)

\* C10 as stated: when the citation's author and year occur in the text of no
\* reference, every candidate scores 0 and the citation is unmatched.
C10_AbsentMeansZero ==
    (Returned /\ CitationParses(citations[ci].text) /\ AbsentFromTexts) =>
        /\ \A k \in Scored : scores[k].total_score = FZero
        /\ ~Matched

\* two strings have a character in common
ShareCharacter(a, b) == \E i \in 1..Len(a), j \in 1..Len(b) : a[i] = b[j]

\* the citation's author, case-folded, occurs in the text of no reference and
\* shares no character with the primary author of any; its year occurs in the
\* text of no reference and is OCR-confusable with the year of none
NoEvidence ==
    \A k \in 1..Len(references) :
        /\ ~Contains(lower(references[k].text), lower(citation_author))
        /\ Falsy(RefAuthor(k)) \/ ~ShareCharacter(lower(citation_author), lower(RefAuthor(k)))
        /\ ~Contains(references[k].text, citation_year)
        /\ RefYear(k) = None \/ ~is_ocr_error(citation_year, RefYear(k))

\* C10 as amended: when the citation's author, compared case-folded, occurs
\* in the text of no reference and shares no character with the primary
\* author of any, and its year occurs in the text of no reference and is
\* OCR-confusable with the extracted year of none, every candidate scores 0
\* and the citation is unmatched.
C10_NoEvidenceMeansZero ==
    (Returned /\ CitationParses(citations[ci].text) /\ NoEvidence) =>
        /\ \A k \in Scored : scores[k].total_score = FZero
        /\ ~Matched

\* a citation without evidence in a list of two scored references
C10_Witness ==
    /\ Returned /\ ~Matched
    /\ NoEvidence
    /\ Scored = {1, 2}

(***************************************************************************)
(* Properties of CitationChecker.check                                      *)
(***************************************************************************)
\* the positions of the references that the mapper returned for some citation
Selected == {all_mapping_results[k].reference : k \in 1..Len(all_mapping_results)}

\* C11: after check has processed all citations, unused_references holds
\* exactly the positions of the reference list that no citation selected
\* (so unused_references_count, its length, is the number of those).
C11_UnusedAreNeverSelected ==
    pc = "done" => unused_references = (1..Len(references)) \ Selected

\* C12: a text that is no str is treated as the empty string: check raises
\* no exception, reports every citation, reports a citation of such a text
\* unmatched and never selects a reference of such a text.
C12_NonStrTreatedAsEmpty ==
    /\ pc # "raised"
    /\ pc = "done" => Len(results) = Len(citations)
    /\ \A k \in 1..Len(results) : ~IsStr(citations[k].text) => ~results[k].matched
    /\ \A r \in Selected : IsStr(references[r].text)

\* the report entries with a given flag set
Entries(flag) == {k \in 1..Len(results) : results[k][flag]}

\* C13: between two citations and at the end, results holds one entry per
\* processed citation, in citation order and numbered from 1, each with one
\* reference when matched and none otherwise; the counters agree with the
\* entries and with the lists; corrected_count and formatted_count do not
\* exceed matched_count; a citation that is not author-year is unmatched;
\* is_compliant holds exactly when no entry is unmatched.
C13_OneEntryPerCitationCountersAgree ==
    pc \in {"next", "done"} =>
        /\ Len(results) = ci - 1
        /\ pc = "done" => Len(results) = Len(citations)
        /\ \A k \in 1..Len(results) :
               /\ results[k].citation_index = k
               /\ results[k].original_citation = citations[k].text
               /\ results[k].matched <=> results[k].reference_text # None
               /\ citations[k].format_type # "author_year" => ~results[k].matched
               /\ results[k].needs_correction => results[k].matched
               /\ results[k].needs_formatting => results[k].matched
        /\ matched_count + unmatched_count = Len(results)
        /\ matched_count = Cardinality(Entries("matched"))
        /\ matched_count = Len(all_mapping_results)
        /\ corrected_count = Cardinality(Entries("needs_correction"))
        /\ corrected_count = Len(corrections_needed)
        /\ formatted_count = Cardinality(Entries("needs_formatting"))
        /\ formatted_count = Len(formatting_needed)
        /\ corrected_count <= matched_count
        /\ formatted_count <= matched_count
        /\ is_compliant <=> Entries("matched") = 1..Len(results)

\* a document of three citations is done: one corrected, one formatted, one
\* that is not author-year
C13_Witness ==
    /\ pc = "done"
    /\ Len(results) = 3
    /\ matched_count = 2 /\ unmatched_count = 1
    /\ corrected_count = 1 /\ formatted_count = 1
    /\ \E k \in 1..3 : citations[k].format_type = "number"

\* what check reports for a citation, but for its position
Outcome(entry) ==
    [matched |-> entry.matched, reference_text |-> entry.reference_text,
     needs_correction |-> entry.needs_correction,
     needs_formatting |-> entry.needs_formatting,
     corrected_citation |-> entry.corrected_citation,
     formatted_citation |-> entry.formatted_citation]

\* C15: two citations of one document with the same text and format have the
\* same outcome (matched or not, reference, corrected and formatted citation),
\* whatever was processed before each of them.
C15_OutcomeIndependentOfOtherCitations ==
    \A j, k \in 1..Len(results) :
        citations[j] = citations[k] => Outcome(results[j]) = Outcome(results[k])

\* a matched citation has been processed first and again after a different
\* matched citation
C15_Witness ==
    /\ pc = "done"
    /\ Len(results) = 3
    /\ citations[1] = citations[3] /\ citations[1] # citations[2]
    /\ results[1].matched /\ results[2].matched /\ results[3].matched

(***************************************************************************)
(* Properties of BatchProcessor.process                                     *)
(***************************************************************************)
\* the entries of a list that come from future i
From(list, i) == {k \in 1..Len(list) : list[k].future = i}

\* batch_stats
total_documents == Len(file_paths)
successful_documents == Len(batch_results)
failed_documents == Len(failed_files)

\* every yielded future is in exactly one of the two lists, once, under its
\* own path, and in results exactly when its processing returned
Accounted(i) ==
    /\ Cardinality(From(batch_results, i)) + Cardinality(From(failed_files, i)) = 1
    /\ \A k \in From(batch_results, i) :
           batch_results[k].document = file_paths[i] /\ futures[i].state = "result"
    /\ \A k \in From(failed_files, i) :
           failed_files[k].document = file_paths[i] /\ futures[i].state = "exception"

BatchAccounting ==
    /\ pc \in {"submit", "collect", "returned"}
    /\ \A i \in collected : Accounted(i)
    /\ successful_documents + failed_documents = Cardinality(collected)
    /\ pc = "returned" =>
           /\ collected = 1..Len(file_paths)
           /\ successful_documents + failed_documents = total_documents

FoldedCitationAuthor == lower(strip(arg_citation_author))
FoldedRefAuthor == lower(strip(arg_ref_author))
FoldedText == lower(arg_reference_text)

OneInOther ==
    Contains(FoldedRefAuthor, FoldedCitationAuthor)
        \/ Contains(FoldedCitationAuthor, FoldedRefAuthor)

\* the number of characters of the text before the first occurrence of the
\* citation author
CharactersBefore ==
    Least({i \in 1..(Len(FoldedText) + 1) :
               OccursAt(FoldedCitationAuthor, FoldedText, i)}) - 1

\* the score the tiers of C16 give, tried in order
AuthorTier ==
    IF FoldedCitationAuthor = FoldedRefAuthor THEN "exact"
    ELSE IF OneInOther THEN "substring"
    ELSE IF Contains(FoldedText, FoldedCitationAuthor)
    THEN IF CharactersBefore < 100 THEN "first100"
         ELSE IF CharactersBefore < 200 THEN "first200"
         ELSE "later"
    ELSE "fallback"

\* C16: the author score is 1.0 for equal authors, else 0.9 when one contains
\* the other, else 0.8 / 0.6 / 0.4 when the citation author first occurs in
\* the text within the first 100 characters / the first 200 / later, else 0.5
\* times the similarity ratio, which is below 0.5; it lies between 0 and 1.
C16_AuthorScoreTiers ==
    pc = "author_done" =>
        /\ AuthorTier = "exact" => author_score = F_1_0
        /\ AuthorTier = "substring" => author_score = F_0_9
        /\ AuthorTier = "first100" => author_score = F_0_8
        /\ AuthorTier = "first200" => author_score = F_0_6
        /\ AuthorTier = "later" => author_score = F_0_4
        /\ AuthorTier = "fallback" =>
               /\ author_score = FMul(F_0_5, ratio(FoldedCitationAuthor, FoldedRefAuthor))
               /\ FGt(F_0_5, author_score)
        /\ FGe(author_score, FZero) /\ FGe(F_1_0, author_score)

\* the citation author first occurs at offset 100 of the text and scores 0.6
C16_Witness ==
    /\ pc = "author_done"
    /\ AuthorTier = "first200"
    /\ CharactersBefore = 100
    /\ author_score = F_0_6
(***************************************************************************)
(* C19, C20: extract_author_year_from_reference                             *)
(***************************************************************************)
\* the four digits at e[j..j+3] are preceded by c and then whitespace only
AfterLead(e, c, j) ==
    \E i \in 1..(j - 1) : e[i] = c /\ AllIn(e, i + 1, j - 1, Whitespace)

\* e[k] exists and is one of cs
Holds(e, k, cs) == k <= Len(e) /\ e[k] \in cs

\* the ranks, 1 the highest, of the four digits at e[j..j+3]
Ranks(e, j) ==
    {r \in 1..9 :
        CASE r = 1 -> j > 1 /\ e[j - 1] = "(" /\ Holds(e, j + 4, {")"})
          [] r = 2 -> j > 1 /\ e[j - 1] = "(" /\ Holds(e, j + 4, {")"}) /\ Holds(e, j + 5, {"."})
          [] r = 3 -> AfterLead(e, ",", j) /\ Holds(e, j + 4, {",", ")"})
          [] r = 4 -> AfterLead(e, ",", j) /\ Holds(e, j + 4, {"."})
          [] r = 5 -> AfterLead(e, ",", j)
          [] r = 6 -> AfterLead(e, ":", j) /\ Holds(e, j + 4, {"."})
          [] r = 7 -> AfterLead(e, ":", j)
          [] r = 8 -> j > 1 /\ e[j - 1] \in Whitespace /\ Holds(e, j + 4, {"."})
          [] r = 9 -> j > 1 /\ e[j - 1] \in Whitespace}

\* the places of e where four digits stand in the context of some pattern,
\* each with its ranks
YearPlaces(e) ==
    {pl \in {[at |-> j, ranks |-> Ranks(e, j)] :
                j \in {k \in 1..Len(e) : FourAt(e, k, Digits)}} : pl.ranks # {}}

\* the leftmost of the places of the best rank
BestPlace(places) ==
    LET best == Least(UNION {pl.ranks : pl \in places})
    IN  Least({pl.at : pl \in {q \in places : best \in q.ranks}})

\* the places of a year in parentheses
ParenPlaces(places) == {pl.at : pl \in {q \in places : 1 \in q.ranks}}

\* the places of a year after a comma
CommaPlaces(places) == {pl.at : pl \in {q \in places : 5 \in q.ranks}}

\* the entry without its label
CleanEntries == {clean_reference_text(arg_reference_text)}

\* C19: the year returned is the capture of the highest-priority pattern that
\* matches anywhere in the entry without its label (the leftmost match of that
\* pattern; None when no pattern matches); a year in parentheses anywhere
\* outranks every year after a comma, a colon or a space; a year returned is
\* four digits.
C19_YearOfHighestPriorityPattern ==
    pc = "reference_done" =>
        \A e \in CleanEntries : \A places \in {YearPlaces(e)} :
            /\ places = {} => parsed_year = None
            /\ places # {} =>
                   \A j \in {BestPlace(places)} : parsed_year = SubSeq(e, j, j + 3)
            /\ ParenPlaces(places) # {} =>
                   \A j \in {Least(ParenPlaces(places))} : parsed_year = SubSeq(e, j, j + 3)
            /\ parsed_year # None =>
                   Len(parsed_year) = 4 /\ \A k \in 1..4 : parsed_year[k] \in Digits

\* a year in parentheses was returned although a different year stands
\* earlier in the entry, after a comma
C19_Witness ==
    /\ pc = "reference_done"
    /\ \E e \in CleanEntries : \E places \in {YearPlaces(e)} :
           /\ ParenPlaces(places) # {}
           /\ \E j \in CommaPlaces(places) :
                  /\ j < Least(ParenPlaces(places))
                  /\ SubSeq(e, j, j + 3) # parsed_year
           /\ \E j \in ParenPlaces(places) : parsed_year = SubSeq(e, j, j + 3)

\* e up to its first "." or ","
EntryHead(e) ==
    SubSeq(e, 1, Least({k \in 0..Len(e) : k = Len(e) \/ e[k + 1] \in {".", ","}}))

\* the first of the names of the head of e
FirstName(e) == strip(BeforeFirst(strip(EntryHead(e)), "FWC"))

\* s is p with nothing, or with suffixes only, behind it
IsPrefixOf(p, s) == Len(p) <= Len(s) /\ SubSeq(s, 1, Len(p)) = p

\* C20: the primary author returned is the entry without its label up to the
\* first "." or ",", of several names the first, with a trailing DENG or
\* "et al." removed; so it contains no ".", "," or FWC and never ends with
\* DENG or with "et al".
C20_PrimaryAuthorWithoutSuffix ==
    (pc = "reference_done" /\ ~Falsy(parsed_author)) =>
        /\ \A e \in CleanEntries : IsPrefixOf(parsed_author, FirstName(e))
        /\ \A k \in 1..Len(parsed_author) : parsed_author[k] \notin {".", ",", "FWC"}
        /\ ~EndsWith(parsed_author, <<"DENG">>)
        /\ ~EndsWith(parsed_author, ET_AL)
        /\ ~EndsWith(parsed_author, ET_AL \o <<".">>)

(***************************************************************************)
(* C21, C22: extract_authors_from_reference                                 *)
(***************************************************************************)
\* the surname and the initials of an author written 'Surname, Initials.'
SurnameOf(name) == BeforeFirst(name, ",")
InitialsOf(name) == strip(SubSeq(name, Len(SurnameOf(name)) + 2, Len(name)))

\* C21: for a Latin reference whose authors are written 'Surname, Initials.',
\* joined by commas, "and" or "&", the list returned has one element for each
\* author, in the order of the reference, each with the surname and the
\* initials of that author and the surname of no other, none of them initials
\* only.
C21_OneElementPerListedAuthor ==
    (pc = "authors_done" /\ arg_authors # <<>>) =>
        /\ Len(ret_authors) = Len(arg_authors)
        /\ \A i \in 1..Len(arg_authors) :
               i <= Len(ret_authors) =>
                   /\ Contains(ret_authors[i], SurnameOf(arg_authors[i]))
                   /\ Contains(ret_authors[i], InitialsOf(arg_authors[i]))
                   /\ \A j \in 1..Len(arg_authors) :
                          SurnameOf(arg_authors[j]) # SurnameOf(arg_authors[i]) =>
                              ~Contains(ret_authors[i], SurnameOf(arg_authors[j]))
                   /\ ~IsAbbreviation(ret_authors[i])

\* C22: has_et_al is true exactly when "et al" occurs in the reference text,
\* compared without case, in the Chinese branch as in the Latin one.
C22_HasEtAlIffOccurs ==
    pc = "authors_done" =>
        (ret_has_et_al <=> Contains(lower(arg_reference_text), ET_AL))

(***************************************************************************)
(* C24, C25, C26: format_citation_by_authors and the surname routines       *)
(***************************************************************************)
\* the year of the call in full-width parentheses
YearTail == <<"FWL">> \o arg_year \o <<"FWR">>

\* the rendering by the number of surnames and has_et_al
ByCount(surnames, tail, has_et_al) ==
    IF has_et_al \/ Len(surnames) > 2
    THEN surnames[1] \o <<" ", "e", "t", " ", "a", "l", ".">> \o tail
    ELSE IF Len(surnames) = 2
    THEN surnames[1] \o <<" ", "&", " ">> \o surnames[2] \o tail
    ELSE surnames[1] \o tail

NonChineseCall ==
    /\ pc = "format_done"
    /\ arg_authors # <<>>
    /\ ~contains_chinese(arg_authors[1])

\* C24: for a non-Chinese author list the citation is "Surname(Year)" for one
\* surname and has_et_al false, "Surname1 & Surname2(Year)" for two and
\* has_et_al false, "Surname1 et al.(Year)" for more than two or has_et_al
\* true, the year in full-width parentheses; an empty author list returns the
\* citation given.
C24_RenderedByCountAndEtAl ==
    /\ (pc = "format_done" /\ arg_authors = <<>>) =>
           ret_formatted = arg_original_citation
    /\ NonChineseCall =>
           \A surnames \in {surnames_of(arg_authors)} :
               ret_formatted = ByCount(surnames, YearTail, arg_has_et_al)

\* C24 as the code has it: a single surname that is entirely upper-case is
\* rendered "Surname(Year)" whatever has_et_al is; every other non-Chinese
\* author list is rendered by the number of surnames and has_et_al; an empty
\* author list returns the citation given.
C24_RenderedByCountUnlessUpperCase ==
    /\ (pc = "format_done" /\ arg_authors = <<>>) =>
           ret_formatted = arg_original_citation
    /\ NonChineseCall =>
           \A surnames \in {surnames_of(arg_authors)} :
               IF Len(surnames) = 1 /\ isupper(surnames[1])
               THEN ret_formatted = surnames[1] \o YearTail
               ELSE ret_formatted = ByCount(surnames, YearTail, arg_has_et_al)

C24_Witness ==
    /\ pc = "format_done"
    /\ arg_authors = << <<"W", "H", "O">> >>
    /\ arg_has_et_al
    /\ ret_formatted = <<"W", "H", "O", "FWL", "2", "0", "2", "0", "FWR">>

\* C25: a single non-Chinese author whose name has more than two
\* whitespace-separated tokens, or is entirely upper-case, is rendered with the
\* complete name: "OrgName(Year)", the year in full-width parentheses.
C25_InstitutionRenderedAsIs ==
    (NonChineseCall /\ Len(arg_authors) = 1
       /\ (Len(split(arg_authors[1])) > 2 \/ isupper(arg_authors[1]))) =>
        ret_formatted = arg_authors[1] \o YearTail

\* the surname of the tokens of a name without a comma: the last token, with
\* the Dutch prefixes directly before it
SurnameOfTokens(parts) ==
    LET k == Len(parts)
    IN  IF k >= 3 /\ lower(parts[k - 2]) \in dutch_prefixes
                  /\ lower(parts[k - 1]) \in dutch_prefixes
        THEN parts[k - 2] \o <<" ">> \o parts[k - 1] \o <<" ">> \o parts[k]
        ELSE IF k >= 2 /\ lower(parts[k - 1]) \in dutch_prefixes
        THEN parts[k - 1] \o <<" ">> \o parts[k]
        ELSE parts[k]

\* names of a person in full: no "et al" or DENG behind them, not empty
FullNames ==
    {n \in SurnameNames :
        /\ split(n) # <<>>
        /\ ~Contains(lower(n), ET_AL)
        /\ ~Contains(n, <<"DENG">>)}

\* C26: the surname of a name with a comma is the segment before the comma;
\* of any other name the last token, with the one or two Dutch prefixes
\* directly before it; and the three surname routines of the repository
\* return the same surname.
C26_SurnameOfName ==
    (pc = "surname_done" /\ arg_name \in FullNames) =>
        /\ \A expected \in {IF Contains(arg_name, <<",">>)
                            THEN strip(BeforeFirst(arg_name, ","))
                            ELSE SurnameOfTokens(split(arg_name))} :
               ret_surname.reference_mapper = expected
        /\ ret_surname.CitationFormatter = ret_surname.reference_mapper
        /\ ret_surname.citation_extractor = ret_surname.reference_mapper

(***************************************************************************)
(* C23: Chinese authors                                                     *)
(***************************************************************************)
\* result['formatted_citation'] of a matched entry of the report: the entry
\* keeps it when it differs from the corrected citation, which the entry
\* keeps when it differs from the original one
FormattedOf(entry) ==
    IF entry.needs_formatting THEN entry.formatted_citation
    ELSE IF entry.needs_correction THEN entry.corrected_citation
    ELSE entry.original_citation

\* "Author(Year)" for one author and no et al., "Author DENG(Year)" otherwise
ChineseRendering(authors, has_et_al, year) ==
    IF Len(authors) = 1 /\ ~has_et_al
    THEN authors[1] \o <<"FWL">> \o year \o <<"FWR">>
    ELSE authors[1] \o <<" ", "DENG", "FWL">> \o year \o <<"FWR">>

ZhangSanFormatted == ZhangSan \o <<" ", "DENG", "FWL">> \o Y2024 \o <<"FWR">>

\* the mapper has returned for ZhangSan(2024) against the reference of
\* ZhangSan and LiSi alone
ZhangSanScenario ==
    /\ Returned
    /\ citations[ci].text = ZhangSanCitation
    /\ Len(references) = 1
    /\ references[1].text = ZhangSanLiSiReference

\* C23: with a first author that contains a CJK character the formatted
\* citation is "Author(Year)" for exactly one author and has_et_al false and
\* "Author DENG(Year)" for two or more authors or has_et_al true, in a direct
\* call as in the report of check, the year in full-width parentheses; and
\* ZhangSan(2024) against the reference of ZhangSan and LiSi scores 1.0 for
\* the author, 1.0 for the year, 1.0 in total, is matched and is formatted as
\* "ZhangSan DENG(2024)".
C23_ChineseAuthorOrAuthorDeng ==
    /\ (pc = "format_done" /\ arg_authors # <<>> /\ contains_chinese(arg_authors[1])) =>
           ret_formatted = ChineseRendering(arg_authors, arg_has_et_al, arg_year)
    /\ \A k \in 1..Len(results) :
           results[k].matched =>
               \A ex \in {extract_authors_from_reference(results[k].reference_text)} :
                   (ex.authors # <<>> /\ contains_chinese(ex.authors[1])) =>
                       FormattedOf(results[k]) =
                           ChineseRendering(ex.authors, ex.has_et_al,
                               extract_author_year_from_reference(
                                   results[k].reference_text).year)
    /\ ZhangSanScenario =>
           /\ scores[1].author_score = F_1_0
           /\ scores[1].year_score = F_1_0
           /\ scores[1].total_score = F_1_0
           /\ Matched
    /\ \A k \in 1..Len(results) :
           (results[k].original_citation = ZhangSanCitation
              /\ Len(references) = 1
              /\ references[1].text = ZhangSanLiSiReference) =>
               /\ results[k].matched
               /\ FormattedOf(results[k]) = ZhangSanFormatted

\* the report holds ZhangSan(2024) formatted against ZhangSan and LiSi
C23_Witness ==
    /\ pc = "done"
    /\ Len(references) = 1
    /\ references[1].text = ZhangSanLiSiReference
    /\ Len(results) = 1
    /\ results[1].matched
    /\ results[1].needs_formatting
    /\ results[1].formatted_citation = ZhangSanFormatted

(***************************************************************************)
(* C27: the year of the formatted citation                                  *)
(***************************************************************************)
\* the year extracted from the text of the reference of a matched entry
ExtractedYearOf(entry) == extract_author_year_from_reference(entry.reference_text).year

\* C27: the formatted citation of every matched entry of the report ends with
\* the year extracted from the text of the matched reference, in full-width
\* parentheses, whether or not the reference was built with a year.
C27_FormattedYearIsExtractedYear ==
    \A k \in 1..Len(results) :
        results[k].matched =>
            \A y \in {ExtractedYearOf(results[k])} :
                ~Falsy(y) =>
                    EndsWith(FormattedOf(results[k]), <<"FWL">> \o y \o <<"FWR">>)

(***************************************************************************)
(* C28: is_ocr_error is symmetric and reflexive                             *)
(***************************************************************************)
\* C28: is_ocr_error(a, b) = is_ocr_error(b, a) for all year strings a and b,
\* and is_ocr_error(a, a) is true when a has four characters.
C28_SymmetricAndReflexive ==
    (pc \in {"year_score", "year_done"} /\ year2 # None) =>
        /\ ocr_result = is_ocr_error(year2, year1)
        /\ (year1 = year2 /\ Len(year1) = 4) => ocr_result

\* two years that differ in two positions by a pair of the table, taken in
\* the order in which the table does not list the pair
C28_Witness ==
    /\ pc = "year_score"
    /\ year1 = <<"2", "0", "7", "1">>
    /\ year2 = <<"2", "0", "1", "7">>
    /\ ocr_result

(***************************************************************************)
(* C29, C30: author evidence alone, year evidence alone                     *)
(***************************************************************************)
\* reference k was scored with a year score of 0 and an author score from the
\* similarity ratio: the cited author neither equals, contains nor is
\* contained in the primary author, and does not occur in the text
FallbackOnly(k) ==
    /\ k \in Scored
    /\ scores[k].year_score = FZero
    /\ \A ca \in {lower(strip(citation_author))} :
       \A ra \in {lower(strip(RefAuthor(k)))} :
           /\ ca # ra
           /\ ~Contains(ra, ca)
           /\ ~Contains(ca, ra)
           /\ ~Contains(lower(references[k].text), ca)

\* C29: a reference with a year score of 0 and an author score from the
\* similarity-ratio fallback has a total score strictly below 0.3, and a
\* citation whose references are all of that kind is unmatched.
C29_AuthorSimilarityAloneNeverMatches ==
    (Returned /\ CitationParses(citations[ci].text)) =>
        /\ \A k \in 1..Len(references) :
               FallbackOnly(k) => FGt(Threshold, scores[k].total_score)
        /\ (\A k \in 1..Len(references) : FallbackOnly(k)) => ~Matched

\* a citation left unmatched by a similar author alone
C29_Witness ==
    /\ Returned /\ ~Matched
    /\ Len(references) = 2
    /\ \A k \in 1..Len(references) : FallbackOnly(k)
    /\ \E k \in 1..Len(references) : FGt(scores[k].author_score, FZero)

\* C30: when some scored reference has a year score other than 0, a citation
\* that parses is matched, whatever its author scores, and reported matched by
\* check; and when the year extracted from the selected reference differs
\* from the cited year, the corrected citation is the cited author with that
\* year in full-width parentheses.
C30_YearEvidenceAloneMatches ==
    /\ (Returned /\ CitationParses(citations[ci].text)) =>
           /\ (\E k \in Scored : scores[k].year_score # FZero) => Matched
           /\ Matched =>
                  \A y \in {RefYear(result.reference)} :
                      (~Falsy(y) /\ y # citation_year) =>
                          result.corrected_citation =
                              citation_author \o <<"FWL">> \o y \o <<"FWR">>
    /\ (pc \in {"next", "done"} /\ ci > 1 /\ Len(results) = ci - 1
          /\ citations[ci - 1].format_type = "author_year"
          /\ CitationParses(citations[ci - 1].text)
          /\ \E k \in Scored : scores[k].year_score # FZero) =>
           results[ci - 1].matched

\* a citation whose author scores 0 against every reference, matched by the
\* year found in the text of a reference and corrected to the year extracted
\* from it
C30_Witness ==
    /\ Returned /\ Matched
    /\ \A k \in 1..Len(scores) : scores[k].author_score = FZero
    /\ scores[result.reference].year_score = F_0_8
    /\ result.corrected_citation # result.original_citation

====
